---- MODULE Spec2Model ----
(***************************************************************************)
(* A model of MIDIDiff: the NoteEvent record (midi_utils.py), the          *)
(* extractor extract_notes, the encoder notes_to_midi, and the             *)
(* orchestrator main with its inline differ (core.py).                     *)
(*                                                                         *)
(* Python values that reach NoteEvent's constructor are modelled as        *)
(* tagged records [type, value]; inside a constructed NoteEvent the four   *)
(* note fields are integers (the constructor admits nothing else).         *)
(***************************************************************************)
EXTENDS Integers, Sequences, FiniteSets, TLC

VARIABLES
    ne_args,    \* arguments of the last NoteEvent(...) call
    ne_res,     \* its outcome: the object built, or the exception raised
    ne_objs,    \* the NoteEvents built so far (at most two are kept)
    ne_set,     \* the Python set built from ne_objs
    ex_mid,     \* extract_notes: the tracks read so far, the current one last
    ex_pc,      \* extract_notes: "loop", "returned" or "raised"
    ex_tick,    \* extract_notes: tick
    ex_ongoing, \* extract_notes: ongoing
    ex_notes,   \* extract_notes: notes
    rt_notes,   \* round trip: the notes handed to notes_to_midi
    rt_pc,      \* round trip: "start", "encoded" or "extracted"
    rt_mid,     \* round trip: the file notes_to_midi returned
    rt_back,    \* round trip: what extract_notes made of rt_mid
    m_args,     \* main: [file_a, file_b, out_file], the paths given
    m_fs,       \* the file system: [files: path -> content, dirs]
    m_pc,       \* main: the statement reached
    m_mids,     \* main: <<mid_a, mid_b>>
    m_lists,    \* main: <<extract_notes(mid_a), extract_notes(mid_b)>>
    m_only,     \* main: <<only_in_a, only_in_b>>
    m_diff_notes, \* main: the members of diff_notes (its order is the set's)
    m_out_path, \* main: out_path
    m_diff_mid, \* main: diff_mid
    m_printed,  \* main: what was printed, in order
    d_prev,     \* the differ's results for (A, B), kept while (B, A) runs
    m_runs,     \* the runs of main so far: [starts, saved]
    c_other,    \* a second run of main in another process: its locals
    m_probe     \* _determine_out_path: [candidate, i]

ne_vars == <<ne_args, ne_res, ne_objs, ne_set>>
ex_vars == <<ex_mid, ex_pc, ex_tick, ex_ongoing, ex_notes>>
rt_vars == <<rt_notes, rt_pc, rt_mid, rt_back>>
m_vars == <<m_args, m_fs, m_pc, m_mids, m_lists, m_only, m_diff_notes,
            m_out_path, m_diff_mid, m_printed, d_prev, m_runs, c_other,
            m_probe>>
vars == <<ne_vars, ex_vars, rt_vars, m_vars>>

(***************************************************************************)
(* NoteEvent  (midi_utils.py 24-103)                                       *)
(***************************************************************************)

\* Defaults of the dataclass fields PITCH_MIN .. VELOCITY_MAX.
PITCH_MIN == 0
PITCH_MAX == 127
VELOCITY_MIN == 0
VELOCITY_MAX == 127

\* Python values as the constructor can receive them.
PyInt(n) == [type |-> "int", value |-> n]
PyBool(n) == [type |-> "bool", value |-> n]
PyFloat(n) == [type |-> "float", value |-> n]
PyStr == [type |-> "str", value |-> 0]
PyNone == [type |-> "NoneType", value |-> 0]

\* isinstance(value, int): bool is a subclass of int.
isinstance_int(value) == value.type \in {"int", "bool"}

\* _validate_int: the exception it raises, or "ok".
_validate_int(value, min_value, max_value) ==
    IF ~isinstance_int(value) THEN "TypeError"
    ELSE IF min_value # PyNone /\ value.value < min_value.value THEN "ValueError"
    ELSE IF max_value # PyNone /\ value.value > max_value.value THEN "ValueError"
    ELSE "ok"

\* __post_init__: the four validations in order; the first failure is raised.
__post_init__(pitch, start, duration, velocity, pmin, pmax, vmin, vmax) ==
    LET r1 == _validate_int(pitch, pmin, pmax)
        r2 == _validate_int(start, PyInt(0), PyNone)
        r3 == _validate_int(duration, PyInt(1), PyNone)
        r4 == _validate_int(velocity, vmin, vmax)
    IN  IF r1 # "ok" THEN r1
        ELSE IF r2 # "ok" THEN r2
        ELSE IF r3 # "ok" THEN r3
        ELSE r4

\* The generated __init__ followed by __post_init__.  All eight annotated
\* class attributes are dataclass fields, so the four bounds are constructor
\* parameters with defaults.
NoteEventInit(pitch, start, duration, velocity, pmin, pmax, vmin, vmax) ==
    LET r == __post_init__(pitch, start, duration, velocity, pmin, pmax, vmin, vmax)
    IN  IF r = "ok"
        THEN [raised |-> "none",
              obj |-> [pitch |-> pitch.value, start |-> start.value,
                       duration |-> duration.value, velocity |-> velocity.value,
                       PITCH_MIN |-> pmin.value, PITCH_MAX |-> pmax.value,
                       VELOCITY_MIN |-> vmin.value, VELOCITY_MAX |-> vmax.value]]
        ELSE [raised |-> r]

\* NoteEvent(pitch=..., start=..., duration=..., velocity=...) as the
\* extractor calls it: the bounds take their defaults.
NoteEvent(pitch, start, duration, velocity) ==
    NoteEventInit(PyInt(pitch), PyInt(start), PyInt(duration), PyInt(velocity),
                  PyInt(PITCH_MIN), PyInt(PITCH_MAX),
                  PyInt(VELOCITY_MIN), PyInt(VELOCITY_MAX))

\* The dataclass-generated __eq__ (eq=True by default, no override): the
\* tuples of all fields are compared.
NoteEvent__eq__(a, b) ==
    <<a.pitch, a.start, a.duration, a.velocity,
      a.PITCH_MIN, a.PITCH_MAX, a.VELOCITY_MIN, a.VELOCITY_MAX>>
  = <<b.pitch, b.start, b.duration, b.velocity,
      b.PITCH_MIN, b.PITCH_MAX, b.VELOCITY_MIN, b.VELOCITY_MAX>>

identity_key(n) == <<n.pitch, n.start, n.duration>>

\* set(iterable) of NoteEvents: members that compare equal under __eq__
\* (and so hash alike) collapse to one; the first one met is the one kept.
PySet(list) ==
    {list[i] : i \in {j \in 1..Len(list) :
                         \A k \in 1..(j - 1) : ~NoteEvent__eq__(list[k], list[j])}}


(***************************************************************************)
(* extract_notes  (midi_utils.py 106-154)                                  *)
(*                                                                         *)
(* A message is [type, note, velocity, time]; type "other" stands for      *)
(* every message type that is neither note_on nor note_off (its note and   *)
(* velocity are never read).  A file is [ticks_per_beat, tracks].          *)
(***************************************************************************)

Msg(type, note, velocity, time) ==
    [type |-> type, note |-> note, velocity |-> velocity, time |-> time]

\* The dict ongoing: a function whose domain is the set of keys present.
EmptyDict == <<>>

\* ongoing.setdefault(note, []).append(item)
setdefault_append(ongoing, note, item) ==
    IF note \in DOMAIN ongoing
    THEN [ongoing EXCEPT ![note] = Append(@, item)]
    ELSE [k \in DOMAIN ongoing \cup {note} |->
            IF k = note THEN <<item>> ELSE ongoing[k]]

\* stack.pop(): the last item and the stack without it.
stack_pop_peek(stack) == [item |-> stack[Len(stack)], rest |-> stack]
stack_pop_first(stack) == [item |-> Head(stack), rest |-> Tail(stack)]
stack_pop(stack) ==
    [item |-> stack[Len(stack)], rest |-> SubSeq(stack, 1, Len(stack) - 1)]

\* After the pop: `if not stack: ongoing.pop(note, None)`.
after_pop_forgetting(ongoing, note, rest) == ongoing
after_pop_keeping_empty(ongoing, note, rest) == [ongoing EXCEPT ![note] = rest]
after_pop(ongoing, note, rest) ==
    IF rest = <<>>
    THEN [k \in DOMAIN ongoing \ {note} |-> ongoing[k]]
    ELSE [ongoing EXCEPT ![note] = rest]

\* `if duration <= 0: continue`
duration_discarded_negative_only(duration) == duration < 0
duration_discarded(duration) == duration <= 0

is_note_on_any_velocity(msg) == msg.type = "note_on"
is_note_on(msg) == msg.type = "note_on" /\ msg.velocity > 0
is_note_off_by_type(msg) == msg.type = "note_off"
is_note_off(msg) ==
    \/ msg.type = "note_off"
    \/ msg.type = "note_on" /\ msg.velocity = 0

\* One iteration of `for msg in track` on the loop state
\* st = [tick, ongoing, notes, raised].
extract_msg(st, msg) ==
    LET tick == st.tick + msg.time
        s1 == [st EXCEPT !.tick = tick]
    IN  IF is_note_on(msg)
        THEN [s1 EXCEPT !.ongoing =
                 setdefault_append(st.ongoing, msg.note, <<tick, msg.velocity>>)]
        ELSE IF ~is_note_off(msg) THEN s1
        ELSE IF msg.note \notin DOMAIN st.ongoing THEN s1
        ELSE LET popped == stack_pop(st.ongoing[msg.note])
                 start == popped.item[1]
                 vel == popped.item[2]
                 s2 == [s1 EXCEPT !.ongoing =
                           after_pop(st.ongoing, msg.note, popped.rest)]
                 duration == tick - start
             IN  IF duration_discarded(duration) THEN s2
                 ELSE LET r == NoteEvent(msg.note, start, duration, vel)
                      IN  IF r.raised = "none"
                          THEN [s2 EXCEPT !.notes = Append(@, r.obj)]
                          ELSE [s2 EXCEPT !.raised = r.raised]

\* The state at the top of `for track in mid.tracks`: fresh ongoing and tick.
track_start(notes) ==
    [tick |-> 0, ongoing |-> EmptyDict, notes |-> notes, raised |-> "none"]

\* `for msg in track` from message i on; an exception ends the loop.
RECURSIVE extract_track_from(_, _, _)
extract_track_from(st, track, i) ==
    IF i > Len(track) \/ st.raised # "none" THEN st
    ELSE extract_track_from(extract_msg(st, track[i]), track, i + 1)

\* `for track in mid.tracks` from track t on, notes being the list so far.
RECURSIVE extract_tracks_from(_, _, _)
extract_tracks_from(notes, tracks, t) ==
    IF t > Len(tracks) THEN [notes |-> notes, raised |-> "none"]
    ELSE LET st == extract_track_from(track_start(notes), tracks[t], 1)
         IN  IF st.raised # "none"
             THEN [notes |-> st.notes, raised |-> st.raised]
             ELSE extract_tracks_from(st.notes, tracks, t + 1)

\* list.sort(key=lambda n: n.start): stable, ascending.
RECURSIVE insert_by_start_before_ties(_, _)
insert_by_start_before_ties(sorted, n) ==
    IF sorted = <<>> THEN <<n>>
    ELSE IF sorted[Len(sorted)].start < n.start THEN Append(sorted, n)
    ELSE Append(insert_by_start_before_ties(SubSeq(sorted, 1, Len(sorted) - 1), n),
                sorted[Len(sorted)])

RECURSIVE insert_by_start(_, _)
insert_by_start(sorted, n) ==
    IF sorted = <<>> THEN <<n>>
    ELSE IF sorted[Len(sorted)].start <= n.start THEN Append(sorted, n)
    ELSE Append(insert_by_start(SubSeq(sorted, 1, Len(sorted) - 1), n),
                sorted[Len(sorted)])

RECURSIVE sort_by_start_from(_, _, _)
sort_by_start_from(sorted, notes, i) ==
    IF i > Len(notes) THEN sorted
    ELSE sort_by_start_from(insert_by_start(sorted, notes[i]), notes, i + 1)

sort_by_start(notes) == sort_by_start_from(<<>>, notes, 1)

\* extract_notes(mid): [raised, notes]; notes is the returned list when
\* nothing was raised.
extract_notes(mid) ==
    LET r == extract_tracks_from(<<>>, mid.tracks, 1)
    IN  IF r.raised # "none" THEN r
        ELSE [notes |-> sort_by_start(r.notes), raised |-> "none"]

(***************************************************************************)
(* notes_to_midi and _note_events_to_messages  (midi_utils.py 157-226)     *)
(***************************************************************************)

\* The sort key (e[0], e[1]) of an event <<tick, rank, msg>>, compared as
\* Python compares tuples.
key_le_by_tick(e1, e2) == e1[1] <= e2[1]
key_le(e1, e2) == e1[1] < e2[1] \/ (e1[1] = e2[1] /\ e1[2] <= e2[2])

\* events.sort(key=lambda e: (e[0], e[1])): stable, ascending.
RECURSIVE insert_event(_, _)
insert_event(sorted, e) ==
    IF sorted = <<>> THEN <<e>>
    ELSE IF key_le(sorted[Len(sorted)], e) THEN Append(sorted, e)
    ELSE Append(insert_event(SubSeq(sorted, 1, Len(sorted) - 1), e),
                sorted[Len(sorted)])

RECURSIVE sort_events_from(_, _, _)
sort_events_from(sorted, events, i) ==
    IF i > Len(events) THEN sorted
    ELSE sort_events_from(insert_event(sorted, events[i]), events, i + 1)

sort_events(events) == sort_events_from(<<>>, events, 1)

\* The two events of one note: note_on at start with rank 1, note_off at
\* start + duration with rank 0.  msg.time is set later.
note_events_on_first(note) ==
    << <<note.start, 0, Msg("note_on", note.pitch, note.velocity, 0)>>,
       <<note.start + note.duration, 1, Msg("note_off", note.pitch, 0, 0)>> >>

note_events(note) ==
    << <<note.start, 1, Msg("note_on", note.pitch, note.velocity, 0)>>,
       <<note.start + note.duration, 0, Msg("note_off", note.pitch, 0, 0)>> >>

RECURSIVE collect_events(_, _)
collect_events(notes, i) ==
    IF i > Len(notes) THEN <<>>
    ELSE note_events(notes[i]) \o collect_events(notes, i + 1)

\* _note_events_to_messages(notes): the list of <<tick, msg>>.
_note_events_to_messages(notes) ==
    LET events == sort_events(collect_events(notes, 1))
    IN  [i \in 1..Len(events) |-> <<events[i][1], events[i][3]>>]

\* The loop of notes_to_midi: msg.time = tick - last_tick.
RECURSIVE delta_messages_from_zero(_, _, _)
delta_messages_from_zero(events, i, last_tick) ==
    IF i > Len(events) THEN <<>>
    ELSE <<[events[i][2] EXCEPT !.time = events[i][1]]>>
         \o delta_messages_from_zero(events, i + 1, events[i][1])

RECURSIVE delta_messages(_, _, _)
delta_messages(events, i, last_tick) ==
    IF i > Len(events) THEN <<>>
    ELSE LET tick == events[i][1]
             msg == events[i][2]
         IN  <<[msg EXCEPT !.time = tick - last_tick]>>
             \o delta_messages(events, i + 1, tick)

end_of_track == Msg("end_of_track", 0, 0, 0)

\* notes_to_midi(notes, ticks_per_beat): one track, closed by end_of_track.
notes_to_midi_unterminated(notes, ticks_per_beat) ==
    [ticks_per_beat |-> ticks_per_beat,
     tracks |-> << delta_messages(_note_events_to_messages(notes), 1, 0) >>]

notes_to_midi(notes, ticks_per_beat) ==
    LET events == _note_events_to_messages(notes)
    IN  [ticks_per_beat |-> ticks_per_beat,
         tracks |-> << Append(delta_messages(events, 1, 0), end_of_track) >>]

(***************************************************************************)
(* core.py: _determine_out_path (27-55) and main (58-109)                  *)
(*                                                                         *)
(* A path is [parent, stem, num, suffix]: the file <stem><suffix> in       *)
(* directory parent when num = 0, and <stem>_<num><suffix> otherwise.      *)
(* The file system is [files, dirs, unstatable]: files maps each existing   *)
(* path to its content, [kind |-> "midi", mid |-> ...] or                  *)
(* [kind |-> "garbage"]; unstatable holds the paths for which os.stat      *)
(* fails with an OSError that Path.exists does not swallow (a name longer  *)
(* than the file system allows, a directory that may not be searched).     *)
(***************************************************************************)

Path(parent, stem, num, suffix) ==
    [parent |-> parent, stem |-> stem, num |-> num, suffix |-> suffix]

exists(fs, path) == path \in DOMAIN fs.files

\* Path.exists() re-raises every OSError but ENOENT, ENOTDIR, EBADF, ELOOP.
stat_raises(fs, path) == path \in fs.unstatable

MidiContent(mid) == [kind |-> "midi", mid |-> mid]
Garbage == [kind |-> "garbage"]

write_file_if_absent(fs, path, content) ==
    IF path \in DOMAIN fs.files THEN fs
    ELSE [fs EXCEPT !.files = [q \in DOMAIN fs.files \cup {path} |->
                                  IF q = path THEN content ELSE fs.files[q]]]

write_file(fs, path, content) ==
    [fs EXCEPT !.files = [q \in DOMAIN fs.files \cup {path} |->
                             IF q = path THEN content ELSE fs.files[q]]]

\* parent.mkdir(parents=True, exist_ok=True) under suppress(Exception):
\* the directory is there afterwards when the call succeeded.
mkdir(fs, parent, succeeds) ==
    IF succeeds THEN [fs EXCEPT !.dirs = @ \cup {parent}] ELSE fs

\* suffix = out_path.suffix or ".mid"
suffix_as_given(suffix) == suffix
suffix_or_default(suffix) == IF suffix = "" THEN ".mid" ELSE suffix

\* candidate = parent / f"{stem}_{i}{suffix}"
next_candidate(out_path, i) ==
    Path(out_path.parent, out_path.stem, i, suffix_or_default(out_path.suffix))

\* The loop condition candidate.exists(), when os.stat does not fail.
candidate_exists_never(fs, candidate) == FALSE
candidate_exists(fs, candidate) == exists(fs, candidate)

\* set difference x - y of two Python sets of NoteEvents.
set_difference(x, y) == {n \in x : \A m \in y : ~NoteEvent__eq__(n, m)}

\* x.union(y)
set_union(x, y) == x \cup {m \in y : \A n \in x : ~NoteEvent__eq__(n, m)}

\* The orders in which a set can be listed: list(a_set).
ListsOf(S) ==
    {l \in [1..Cardinality(S) -> S] : \A i, j \in 1..Cardinality(S) :
                                          l[i] = l[j] => i = j}

NoPath == Path("", "", 0, "")
NoMid == [ticks_per_beat |-> 0, tracks |-> <<>>]
NoNotes == [notes |-> <<>>, raised |-> "nocall"]

\* Lines 73-78; an exception raised by file_a.exists() is not caught.
MainCheckA_silent ==
    /\ m_pc = "check_a"
    /\ m_pc' = IF stat_raises(m_fs, m_args.file_a) THEN "crashed"
               ELSE IF ~exists(m_fs, m_args.file_a) THEN "returned"
               ELSE "check_b"
    /\ UNCHANGED <<m_args, m_fs, m_mids, m_lists, m_only, m_diff_notes, m_printed,
                   m_out_path, m_diff_mid, d_prev, m_runs, c_other,
                   m_probe, ne_vars, ex_vars, rt_vars>>

MainCheckA ==
    /\ m_pc = "check_a"
    /\ IF stat_raises(m_fs, m_args.file_a)
       THEN /\ m_pc' = "crashed"
            /\ UNCHANGED m_printed
       ELSE IF ~exists(m_fs, m_args.file_a)
       THEN /\ m_printed' = Append(m_printed, <<"Input file missing", m_args.file_a>>)
            /\ m_pc' = "returned"
       ELSE /\ m_pc' = "check_b"
            /\ UNCHANGED m_printed
    /\ UNCHANGED <<m_args, m_fs, m_mids, m_lists, m_only, m_diff_notes,
                   m_out_path, m_diff_mid, d_prev, m_runs, c_other,
                   m_probe, ne_vars, ex_vars, rt_vars>>

\* Lines 79-81; an exception raised by file_b.exists() is not caught.
MainCheckB ==
    /\ m_pc = "check_b"
    /\ IF stat_raises(m_fs, m_args.file_b)
       THEN /\ m_pc' = "crashed"
            /\ UNCHANGED m_printed
       ELSE IF ~exists(m_fs, m_args.file_b)
       THEN /\ m_printed' = Append(m_printed, <<"Input file missing", m_args.file_b>>)
            /\ m_pc' = "returned"
       ELSE /\ m_pc' = "load"
            /\ UNCHANGED m_printed
    /\ UNCHANGED <<m_args, m_fs, m_mids, m_lists, m_only, m_diff_notes,
                   m_out_path, m_diff_mid, d_prev, m_runs, c_other,
                   m_probe, ne_vars, ex_vars, rt_vars>>

\* Lines 83-88: both files are decoded inside one try, A first.
MainLoad_b_first ==
    /\ m_pc = "load"
    /\ LET a == m_fs.files[m_args.file_a]
           b == m_fs.files[m_args.file_b]
       IN  IF b.kind # "midi"
           THEN /\ m_printed' = Append(m_printed, <<"Failed to load MIDI files", m_args.file_b>>)
                /\ m_pc' = "returned"
                /\ UNCHANGED m_mids
           ELSE IF a.kind # "midi"
           THEN /\ m_printed' = Append(m_printed, <<"Failed to load MIDI files", m_args.file_a>>)
                /\ m_pc' = "returned"
                /\ m_mids' = <<NoMid, b.mid>>
           ELSE /\ m_mids' = <<a.mid, b.mid>>
                /\ m_pc' = "extract"
                /\ UNCHANGED m_printed
    /\ UNCHANGED <<m_args, m_fs, m_lists, m_only, m_diff_notes,
                   m_out_path, m_diff_mid, d_prev, m_runs, c_other,
                   m_probe, ne_vars, ex_vars, rt_vars>>

MainLoad ==
    /\ m_pc = "load"
    /\ LET a == m_fs.files[m_args.file_a]
           b == m_fs.files[m_args.file_b]
       IN  IF a.kind # "midi"
           THEN /\ m_printed' = Append(m_printed, <<"Failed to load MIDI files", m_args.file_a>>)
                /\ m_pc' = "returned"
                /\ UNCHANGED m_mids
           ELSE IF b.kind # "midi"
           THEN /\ m_printed' = Append(m_printed, <<"Failed to load MIDI files", m_args.file_b>>)
                /\ m_pc' = "returned"
                /\ m_mids' = <<a.mid, NoMid>>
           ELSE /\ m_mids' = <<a.mid, b.mid>>
                /\ m_pc' = "extract"
                /\ UNCHANGED m_printed
    /\ UNCHANGED <<m_args, m_fs, m_lists, m_only, m_diff_notes,
                   m_out_path, m_diff_mid, d_prev, m_runs, c_other,
                   m_probe, ne_vars, ex_vars, rt_vars>>

\* The calls extract_notes(mid_a), extract_notes(mid_b) of lines 90-91.  An
\* exception raised by extract_notes is not caught by main.
MainExtract ==
    /\ m_pc = "extract"
    /\ LET a == extract_notes(m_mids[1])
           b == extract_notes(m_mids[2])
       IN  IF a.raised # "none" \/ b.raised # "none"
           THEN m_pc' = "crashed" /\ UNCHANGED m_lists
           ELSE m_pc' = "diff" /\ m_lists' = <<a.notes, b.notes>>
    /\ UNCHANGED <<m_args, m_fs, m_mids, m_only, m_diff_notes, m_out_path,
                   m_diff_mid, m_printed, d_prev, m_runs, c_other,
                   m_probe, ne_vars, ex_vars, rt_vars>>

\* only_in_a = notes_a - notes_b of line 93 (and line 94, mirrored).
only_in_everything(notes_x, notes_y) == notes_x
only_in(notes_x, notes_y) == set_difference(notes_x, notes_y)

\* only_in_a.union(only_in_b) of line 99.
diff_union_first_only(only_in_a, only_in_b) == only_in_a
diff_union(only_in_a, only_in_b) == set_union(only_in_a, only_in_b)

\* Lines 90-99 on the two extracted lists: the sets, the two differences,
\* the two counts printed, and diff_notes.
MainDiff ==
    /\ m_pc = "diff"
    /\ LET notes_a == PySet(m_lists[1])
           notes_b == PySet(m_lists[2])
           only_in_a == only_in(notes_a, notes_b)
           only_in_b == only_in(notes_b, notes_a)
       IN  /\ m_only' = <<only_in_a, only_in_b>>
           /\ m_printed' = m_printed
                  \o << <<"Notes only in A", Cardinality(only_in_a)>>,
                        <<"Notes only in B", Cardinality(only_in_b)>> >>
           /\ m_diff_notes' = diff_union(only_in_a, only_in_b)
    /\ m_pc' = "out_path"
    /\ UNCHANGED <<m_args, m_fs, m_mids, m_lists, m_out_path, m_diff_mid,
                   d_prev, m_runs, c_other,
                   m_probe, ne_vars, ex_vars, rt_vars>>

\* Line 101 calls _determine_out_path(out_file); lines 39-49: mkdir, which
\* may fail silently, then candidate = out_path and i = 1.
MainOutPath ==
    /\ m_pc = "out_path"
    /\ \E succeeds \in BOOLEAN :
          m_fs' = mkdir(m_fs, m_args.out_file.parent, succeeds)
    /\ m_probe' = [candidate |-> m_args.out_file, i |-> 1]
    /\ m_pc' = "probe"
    /\ UNCHANGED <<m_args, m_mids, m_lists, m_only, m_diff_notes, m_out_path,
                   m_diff_mid, m_printed, d_prev, m_runs, c_other,
                   ne_vars, ex_vars, rt_vars>>

\* Lines 51-53: one test of `while candidate.exists()`.  An exception it
\* raises is not caught by main; when the candidate exists the next one
\* is made and i grows; when it does not, the loop is left.
MainProbe ==
    /\ m_pc = "probe"
    /\ IF stat_raises(m_fs, m_probe.candidate)
       THEN m_pc' = "crashed" /\ UNCHANGED m_probe
       ELSE IF candidate_exists(m_fs, m_probe.candidate)
       THEN /\ m_probe' = [candidate |-> next_candidate(m_args.out_file, m_probe.i),
                           i |-> m_probe.i + 1]
            /\ UNCHANGED m_pc
       ELSE m_pc' = "found" /\ UNCHANGED m_probe
    /\ UNCHANGED <<m_args, m_fs, m_mids, m_lists, m_only, m_diff_notes,
                   m_out_path, m_diff_mid, m_printed, d_prev, m_runs, c_other,
                   ne_vars, ex_vars, rt_vars>>

\* Line 55 and the assignment of line 101: out_path = the candidate found.
MainFound ==
    /\ m_pc = "found"
    /\ m_out_path' = m_probe.candidate
    /\ m_pc' = "encode"
    /\ UNCHANGED <<m_args, m_fs, m_mids, m_lists, m_only, m_diff_notes,
                   m_diff_mid, m_printed, d_prev, m_runs, c_other, m_probe,
                   ne_vars, ex_vars, rt_vars>>

\* Line 102: notes_to_midi(diff_notes, ticks_per_beat=mid_a.ticks_per_beat);
\* diff_notes is list(a set), in whatever order the set yields.
MainEncode ==
    /\ m_pc = "encode"
    /\ \E diff_notes \in ListsOf(m_diff_notes) :
          m_diff_mid' = notes_to_midi(diff_notes, m_mids[1].ticks_per_beat)
    /\ m_pc' = "save"
    /\ UNCHANGED <<m_args, m_fs, m_mids, m_lists, m_only, m_diff_notes,
                   m_out_path, m_printed, d_prev, m_runs, c_other,
                   m_probe, ne_vars, ex_vars, rt_vars>>

\* Lines 103-105: diff_mid.save(str(out_path)) inside the try.  It
\* succeeds, or raises leaving nothing or a partial file; it cannot
\* succeed in a directory that does not exist.  What was at the path is
\* replaced.
MainSave ==
    /\ m_pc = "save"
    /\ \/ /\ m_out_path.parent \in m_fs.dirs
          /\ m_fs' = write_file(m_fs, m_out_path, MidiContent(m_diff_mid))
          /\ m_pc' = "report_saved"
       \/ /\ m_fs' = m_fs
          /\ m_pc' = "report_failed"
       \/ /\ m_out_path.parent \in m_fs.dirs
          /\ m_fs' = write_file(m_fs, m_out_path, Garbage)
          /\ m_pc' = "report_failed"
    /\ UNCHANGED <<m_args, m_mids, m_lists, m_only, m_diff_notes, m_out_path,
                   m_diff_mid, m_printed, d_prev, m_runs, c_other,
                   m_probe, ne_vars, ex_vars, rt_vars>>

\* Lines 106-107: the except branch prints the failure and returns.
MainReportFailed ==
    /\ m_pc = "report_failed"
    /\ m_printed' = Append(m_printed, <<"Failed to save diff MIDI", m_out_path>>)
    /\ m_pc' = "returned"
    /\ UNCHANGED <<m_args, m_fs, m_mids, m_lists, m_only, m_diff_notes,
                   m_out_path, m_diff_mid, d_prev, m_runs, c_other,
                   m_probe, ne_vars, ex_vars, rt_vars>>

\* Line 109: print("Saved diff MIDI ... {out_path}") outside the try.  The
\* message holds characters beyond ASCII: on a standard output whose
\* encoding lacks them print raises UnicodeEncodeError, which nothing
\* catches.
MainReportSaved ==
    /\ m_pc = "report_saved"
    /\ \/ /\ m_printed' = Append(m_printed, <<"Saved diff MIDI", m_out_path>>)
          /\ m_pc' = "returned"
       \/ /\ m_pc' = "crashed"
          /\ UNCHANGED m_printed
    /\ UNCHANGED <<m_args, m_fs, m_mids, m_lists, m_only, m_diff_notes,
                   m_out_path, m_diff_mid, d_prev, m_runs, c_other,
                   m_probe, ne_vars, ex_vars, rt_vars>>

(***************************************************************************)
(* Each specification below exercises one part of the program; the         *)
(* variables of the other parts rest at these values.                      *)
(***************************************************************************)

NoArgs == <<>>
NoRes == [raised |-> "nocall"]

NoteEventIdle ==
    /\ ne_args = NoArgs
    /\ ne_res = NoRes
    /\ ne_objs = <<>>
    /\ ne_set = {}

ExtractIdle ==
    /\ ex_mid = <<>>
    /\ ex_pc = "idle"
    /\ ex_tick = 0
    /\ ex_ongoing = EmptyDict
    /\ ex_notes = <<>>

FileA == Path(".", "a", 0, ".mid")
FileB == Path(".", "b", 0, ".mid")
OutFile == Path(".", "out", 0, ".mid")

EmptyFs == [files |-> <<>>, dirs |-> {"."}, unstatable |-> {}]

NoRuns == [starts |-> <<>>, saved |-> <<>>]

\* _determine_out_path has not been called.
NoProbe == [candidate |-> NoPath, i |-> 0]

\* The locals of a run of main that has been called and has done nothing.
Called(args) ==
    [args |-> args, pc |-> "check_a", mids |-> <<NoMid, NoMid>>,
     lists |-> << <<>>, <<>> >>, only |-> <<{}, {}>>, diff_notes |-> {},
     out_path |-> NoPath, diff_mid |-> NoMid, printed |-> <<>>,
     probe |-> NoProbe]

\* There is no second run.
NoOther ==
    [Called([file_a |-> FileA, file_b |-> FileB, out_file |-> OutFile])
        EXCEPT !.pc = "idle"]

MainFresh ==
    /\ m_mids = <<NoMid, NoMid>>
    /\ m_lists = << <<>>, <<>> >>
    /\ m_only = <<{}, {}>>
    /\ m_diff_notes = {}
    /\ m_out_path = NoPath
    /\ m_diff_mid = NoMid
    /\ m_printed = <<>>
    /\ m_probe = NoProbe
    /\ d_prev = <<>>

MainIdle ==
    /\ m_args = [file_a |-> FileA, file_b |-> FileB, out_file |-> OutFile]
    /\ m_fs = EmptyFs
    /\ m_pc = "idle"
    /\ MainFresh
    /\ m_runs = NoRuns
    /\ c_other = NoOther

RoundTripIdle ==
    /\ rt_notes = <<>>
    /\ rt_pc = "idle"
    /\ rt_mid = NoMid
    /\ rt_back = NoNotes

(***************************************************************************)
(* Specification SpecExtract: extract_notes message by message, the file   *)
(* being any sequence of tracks over the message alphabet.                 *)
(***************************************************************************)

MaxFileSize == 5    \* tracks plus messages of the file read

Pitches == {60, 61}
Velocities == {0, 100}
Deltas == {0, 10}

Messages ==
    {Msg("note_on", p, v, t) : p \in Pitches, v \in Velocities, t \in Deltas}
    \cup {Msg("note_off", p, 0, t) : p \in Pitches, t \in Deltas}
    \cup {Msg("other", 0, 0, t) : t \in Deltas}

RECURSIVE FileSize(_)
FileSize(tracks) ==
    IF tracks = <<>> THEN 0 ELSE 1 + Len(Head(tracks)) + FileSize(Tail(tracks))

\* extract_notes is entered: notes = [].
InitExtract ==
    /\ MainIdle
    /\ NoteEventIdle
    /\ RoundTripIdle
    /\ ex_mid = <<>>
    /\ ex_pc = "loop"
    /\ ex_tick = 0
    /\ ex_ongoing = EmptyDict
    /\ ex_notes = <<>>

\* The outer loop takes the next track: ongoing = {}, tick = 0.
ExTrack ==
    /\ ex_pc = "loop"
    /\ FileSize(ex_mid) < MaxFileSize
    /\ ex_mid' = Append(ex_mid, <<>>)
    /\ ex_tick' = 0
    /\ ex_ongoing' = EmptyDict
    /\ UNCHANGED <<ex_pc, ex_notes, ne_vars, rt_vars, m_vars>>

\* The inner loop takes the next message of the current track.
ExMsg_skipping_other(msg) ==
    LET st == IF msg.type = "other"
              THEN [tick |-> ex_tick, ongoing |-> ex_ongoing,
                    notes |-> ex_notes, raised |-> "none"]
              ELSE extract_msg([tick |-> ex_tick, ongoing |-> ex_ongoing,
                                notes |-> ex_notes, raised |-> "none"], msg)
    IN  /\ ex_mid' = [ex_mid EXCEPT ![Len(ex_mid)] = Append(@, msg)]
        /\ ex_tick' = st.tick
        /\ ex_ongoing' = st.ongoing
        /\ ex_notes' = st.notes
        /\ ex_pc' = IF st.raised = "none" THEN "loop" ELSE "raised"
        /\ UNCHANGED <<ne_vars, rt_vars, m_vars>>

ExMsg(msg) ==
    LET st == extract_msg([tick |-> ex_tick, ongoing |-> ex_ongoing,
                           notes |-> ex_notes, raised |-> "none"], msg)
    IN  /\ ex_mid' = [ex_mid EXCEPT ![Len(ex_mid)] = Append(@, msg)]
        /\ ex_tick' = st.tick
        /\ ex_ongoing' = st.ongoing
        /\ ex_notes' = st.notes
        /\ ex_pc' = IF st.raised = "none" THEN "loop" ELSE "raised"
        /\ UNCHANGED <<ne_vars, rt_vars, m_vars>>

CanExMsg ==
    /\ ex_pc = "loop"
    /\ Len(ex_mid) > 0
    /\ FileSize(ex_mid) < MaxFileSize

\* All tracks are done: notes.sort(...); return notes.
ExReturn ==
    /\ ex_pc = "loop"
    /\ ex_notes' = sort_by_start(ex_notes)
    /\ ex_pc' = "returned"
    /\ UNCHANGED <<ex_mid, ex_tick, ex_ongoing, ne_vars, rt_vars, m_vars>>

NextExtract ==
    \/ ExTrack
    \/ CanExMsg /\ \E msg \in Messages : ExMsg(msg)
    \/ ExReturn

SpecExtract == InitExtract /\ [][NextExtract]_vars

(***************************************************************************)
(* Specification SpecTracks: extract_notes message by message on files of  *)
(* several tracks, over the note messages alone (velocity 100), so that    *)
(* two tracks with a whole note each are within the bound.                 *)
(***************************************************************************)

MaxTracksSize == 6  \* tracks plus messages of the file read

NoteMessages ==
    {Msg("note_on", p, 100, t) : p \in Pitches, t \in Deltas}
    \cup {Msg("note_off", p, 0, t) : p \in Pitches, t \in Deltas}

\* The outer loop takes the next track: ongoing = {}, tick = 0.
TrTrack_carrying ==
    /\ ex_pc = "loop"
    /\ FileSize(ex_mid) < MaxTracksSize
    /\ ex_mid' = Append(ex_mid, <<>>)
    /\ UNCHANGED <<ex_tick, ex_ongoing, ex_pc, ex_notes, ne_vars, rt_vars, m_vars>>

TrTrack ==
    /\ ex_pc = "loop"
    /\ FileSize(ex_mid) < MaxTracksSize
    /\ ex_mid' = Append(ex_mid, <<>>)
    /\ ex_tick' = track_start(ex_notes).tick
    /\ ex_ongoing' = track_start(ex_notes).ongoing
    /\ UNCHANGED <<ex_pc, ex_notes, ne_vars, rt_vars, m_vars>>

CanTrMsg ==
    /\ ex_pc = "loop"
    /\ Len(ex_mid) > 0
    /\ FileSize(ex_mid) < MaxTracksSize

NextTracks ==
    \/ TrTrack
    \/ CanTrMsg /\ \E msg \in NoteMessages : ExMsg(msg)
    \/ ExReturn

SpecTracks == InitExtract /\ [][NextTracks]_vars

(***************************************************************************)
(* Specification SpecNoteEvent: construction and comparison of NoteEvents  *)
(***************************************************************************)

PitchArgs == {PyInt(-1), PyInt(0), PyInt(127), PyInt(128),
              PyFloat(60), PyStr, PyNone, PyBool(1)}
StartArgs == {PyInt(-1), PyInt(0), PyInt(1), PyFloat(0), PyNone}
DurationArgs == {PyInt(0), PyInt(1), PyInt(2), PyFloat(1)}
VelocityArgs == {PyInt(-1), PyInt(0), PyInt(127), PyInt(128), PyFloat(64)}
PitchMaxArgs == {PyInt(PITCH_MAX), PyInt(300)}

InitNoteEvent ==
    /\ MainIdle
    /\ NoteEventIdle
    /\ ExtractIdle
    /\ RoundTripIdle

\* One constructor call; a NoteEvent that was built is kept.  An exception
\* is not caught: nothing is constructed after one was raised.
Construct(pitch, start, duration, velocity, pmax) ==
    LET r == NoteEventInit(pitch, start, duration, velocity,
                           PyInt(PITCH_MIN), pmax,
                           PyInt(VELOCITY_MIN), PyInt(VELOCITY_MAX))
    IN  /\ ne_args' = <<pitch, start, duration, velocity, pmax>>
        /\ ne_res' = r
        /\ ne_objs' = IF r.raised = "none" THEN Append(ne_objs, r.obj) ELSE ne_objs
        /\ UNCHANGED <<ne_set, ex_vars, rt_vars, m_vars>>

\* set(ne_objs)
BuildSet ==
    /\ Len(ne_objs) = 2
    /\ ne_set = {}
    /\ ne_set' = PySet(ne_objs)
    /\ UNCHANGED <<ne_args, ne_res, ne_objs, ex_vars, rt_vars, m_vars>>

\* Calls are made while no exception has escaped and two objects are not
\* yet built.
CanConstruct ==
    /\ ne_res.raised \in {"nocall", "none"}
    /\ Len(ne_objs) < 2

NextNoteEvent ==
    \/ /\ CanConstruct
       /\ \E p \in PitchArgs, s \in StartArgs, d \in DurationArgs,
             v \in VelocityArgs, pmax \in PitchMaxArgs :
               Construct(p, s, d, v, pmax)
    \/ BuildSet

SpecNoteEvent == InitNoteEvent /\ [][NextNoteEvent]_vars

(***************************************************************************)
(* Claims about extract_notes, stated over the file read so far            *)
(***************************************************************************)

\* Absolute tick of message i of a track: the sum of the delta times up to
\* and including it.
RECURSIVE TickAt(_, _)
TickAt(track, i) == IF i = 0 THEN 0 ELSE TickAt(track, i - 1) + track[i].time

\* The positions p of `open` (a sequence of message indices in opening
\* order) whose note-on has the given pitch.
SamePitch(track, open, note) ==
    {p \in 1..Len(open) : track[open[p]].note = note}

Max(S) == CHOOSE x \in S : \A y \in S : y <= x

RemoveAt(seq, p) == SubSeq(seq, 1, p - 1) \o SubSeq(seq, p + 1, Len(seq))

\* LIFO pairing as a rule on message indices: after the first n messages,
\* open = the note-ons (velocity > 0) not yet closed, in opening order, and
\* pairs = the <<on index, off index>> pairs in closing order, where each
\* note-off or velocity-0 note-on closes the most recently opened note-on of
\* its pitch that is still open.
RECURSIVE LifoPairing(_, _)
LifoPairing(track, n) ==
    IF n = 0 THEN [open |-> <<>>, pairs |-> <<>>]
    ELSE LET prev == LifoPairing(track, n - 1)
             m == track[n]
             cands == SamePitch(track, prev.open, m.note)
         IN  IF m.type = "note_on" /\ m.velocity > 0
             THEN [prev EXCEPT !.open = Append(@, n)]
             ELSE IF m.type = "other" \/ cands = {} THEN prev
             ELSE [open |-> RemoveAt(prev.open, Max(cands)),
                   pairs |-> Append(prev.pairs, <<prev.open[Max(cands)], n>>)]

\* The notes <<pitch, start, duration, velocity>> of the pairs of nonzero
\* length, in closing order.
RECURSIVE PairNotes(_, _, _)
PairNotes(track, pairs, i) ==
    IF i > Len(pairs) THEN <<>>
    ELSE LET on == pairs[i][1]
             off == pairs[i][2]
             d == TickAt(track, off) - TickAt(track, on)
             rest == PairNotes(track, pairs, i + 1)
         IN  IF d <= 0 THEN rest
             ELSE <<  <<track[on].note, TickAt(track, on), d, track[on].velocity>>  >>
                  \o rest

LifoNotes(track) == PairNotes(track, LifoPairing(track, Len(track)).pairs, 1)

RECURSIVE LifoNotesOfTracks(_)
LifoNotesOfTracks(tracks) ==
    IF tracks = <<>> THEN <<>>
    ELSE LifoNotes(Head(tracks)) \o LifoNotesOfTracks(Tail(tracks))

NoteTuple(n) == <<n.pitch, n.start, n.duration, n.velocity>>
NoteTuples(notes) == [i \in 1..Len(notes) |-> NoteTuple(notes[i])]

\* The track of the overlap example: note-ons for pitch 60 at ticks 0 and 10,
\* note-offs at ticks 20 and 30.
OverlapTrack ==
    << Msg("note_on", 60, 100, 0), Msg("note_on", 60, 100, 10),
       Msg("note_off", 60, 0, 10), Msg("note_off", 60, 0, 10) >>

\* C8: LIFO pairing.  While extract_notes runs, the notes collected are
\* exactly those of the LIFO pairing of every track read so far, in closing
\* order: each note-off (or velocity-0 note-on) of pitch p closes the most
\* recently opened still-open note-on of p.  On the example track the notes
\* are (60, start 10, duration 10), closed first, and (60, start 0,
\* duration 30).
C8_LifoPairing ==
    /\ ex_pc = "loop" => NoteTuples(ex_notes) = LifoNotesOfTracks(ex_mid)
    /\ ex_pc = "loop" /\ ex_mid = <<OverlapTrack>> =>
          NoteTuples(ex_notes) = << <<60, 10, 10, 100>>, <<60, 0, 30, 100>> >>
    /\ ex_pc = "returned" /\ ex_mid = <<OverlapTrack>> =>
          NoteTuples(ex_notes) = << <<60, 0, 30, 100>>, <<60, 10, 10, 100>> >>

\* C8 witness: the example track was extracted and both notes returned.
C8_Witness ==
    /\ ex_pc = "returned"
    /\ ex_mid = <<OverlapTrack>>
    /\ Len(ex_notes) = 2

\* The message just handled, when the step handled one.
HandledMsg == ex_mid'[Len(ex_mid')][Len(ex_mid'[Len(ex_mid')])]
MsgStep == Len(ex_mid') = Len(ex_mid) /\ ex_mid' # ex_mid
TrackStep == Len(ex_mid') = Len(ex_mid) + 1
ReturnStep == ex_pc = "loop" /\ ex_pc' = "returned"

\* Number of entries of the list equal to n.
Count(list, n) == Cardinality({i \in 1..Len(list) : list[i] = n})
SameMembers(l1, l2) ==
    /\ Len(l1) = Len(l2)
    /\ \A i \in 1..Len(l1) : Count(l1, l1[i]) = Count(l2, l1[i])

\* C9: extraction is tolerant.  extract_notes never raises; a note-off (or
\* velocity-0 note-on) whose pitch has no open note-on adds no note and
\* changes nothing but the tick; and a note-on still open when its track
\* ends adds no note, neither when the next track starts nor on return.
C9_Tolerant ==
    /\ [](ex_pc # "raised")
    /\ [][ MsgStep /\ is_note_off(HandledMsg)
             /\ HandledMsg.note \notin DOMAIN ex_ongoing
           => /\ ex_notes' = ex_notes
              /\ ex_ongoing' = ex_ongoing
              /\ ex_tick' = ex_tick + HandledMsg.time
              /\ ex_pc' = "loop" ]_vars
    /\ [][ TrackStep => ex_notes' = ex_notes /\ ex_pc' = "loop" ]_vars
    /\ [][ ReturnStep => SameMembers(ex_notes', ex_notes) ]_vars

\* C9 witness: a track holding an unmatched note-off and then a note-on that
\* is never closed was extracted, and extract_notes returned no note.
C9_Witness ==
    /\ ex_pc = "returned"
    /\ ex_mid = << << Msg("note_off", 60, 0, 10), Msg("note_on", 60, 100, 0) >> >>
    /\ ex_notes = <<>>

\* The entries of a list of note tuples that start at the given tick, in
\* the order of the list.
RECURSIVE StartingAt(_, _)
StartingAt(tuples, start) ==
    IF tuples = <<>> THEN <<>>
    ELSE IF Head(tuples)[2] = start
         THEN <<Head(tuples)>> \o StartingAt(Tail(tuples), start)
         ELSE StartingAt(Tail(tuples), start)

\* C19: ordering of the list extract_notes returns.  It is sorted by start
\* ascending, and the notes of equal start keep extraction order: the notes
\* of an earlier track before those of a later track, and within a track
\* in the order in which their closing note-offs were processed.
C19_ExtractOrdering ==
    ex_pc = "returned" =>
        LET out == NoteTuples(ex_notes)
            extracted == LifoNotesOfTracks(ex_mid)
        IN  /\ Len(out) = Len(extracted)
            /\ \A i \in 1..(Len(out) - 1) : out[i][2] <= out[i + 1][2]
            /\ \A i \in 1..Len(extracted) :
                   StartingAt(out, extracted[i][2])
                   = StartingAt(extracted, extracted[i][2])

\* C19 witness: track 1 holds a note of pitch 61 and track 2 a note of pitch
\* 60, both starting at tick 0; the list returned has the note of track 1
\* first.
C19_Witness ==
    /\ ex_pc = "returned"
    /\ Len(ex_mid) = 2
    /\ NoteTuples(ex_notes) = << <<61, 0, 10, 100>>, <<60, 0, 10, 100>> >>

\* The notes of each track extracted on its own, one result after another.
RECURSIVE TrackByTrack(_)
TrackByTrack(tracks) ==
    IF tracks = <<>> THEN <<>>
    ELSE extract_notes([ticks_per_beat |-> 480, tracks |-> <<Head(tracks)>>]).notes
         \o TrackByTrack(Tail(tracks))

\* C20: tracks are independent.  Every track starts with tick 0 and no open
\* note, so no note-off closes a note-on of another track, and the list
\* returned for a file is the stable sort by start of the concatenation of
\* the lists returned for each of its tracks alone.
C20_TrackIndependence ==
    /\ ex_pc = "loop" /\ Len(ex_mid) > 0 /\ ex_mid[Len(ex_mid)] = <<>> =>
          ex_tick = 0 /\ ex_ongoing = EmptyDict
    /\ ex_pc = "returned" =>
          /\ ex_notes = sort_by_start(TrackByTrack(ex_mid))
          /\ \A t \in 1..Len(ex_mid) : LifoNotes(ex_mid[t]) = <<>>
                => ex_notes = sort_by_start(TrackByTrack(RemoveAt(ex_mid, t)))

\* C20 witness: track 1 leaves a note-on of pitch 60 open at tick 10; track
\* 2 has a note-off of pitch 60 that closes nothing, and then a whole note
\* that starts at tick 0 of its own track.
C20_Witness ==
    /\ ex_pc = "returned"
    /\ ex_mid = << << Msg("note_on", 60, 100, 10) >>,
                   << Msg("note_off", 60, 0, 10), Msg("note_on", 60, 100, 0),
                      Msg("note_off", 60, 0, 10) >> >>
    /\ NoteTuples(ex_notes) = << <<60, 10, 10, 100>> >>

\* A track with message i replaced by its counterpart: a note_off by the
\* note_on of velocity 0 with the same pitch and delta time, and the reverse.
Counterpart(msg) ==
    IF msg.type = "note_off" THEN Msg("note_on", msg.note, 0, msg.time)
    ELSE Msg("note_off", msg.note, 0, msg.time)
Replaceable(msg) ==
    msg.type = "note_off" \/ (msg.type = "note_on" /\ msg.velocity = 0)
Replaced(tracks, t, i) ==
    [tracks EXCEPT ![t] = [@ EXCEPT ![i] = Counterpart(@)]]

\* C21: a note-on with velocity 0 is handled exactly as a note-off.  For
\* the file read, replacing any one note-off by the velocity-0 note-on of
\* the same pitch and delta time, or the reverse, leaves the list
\* extract_notes returns unchanged; the next message has the same effect
\* in either form; no stack ever holds a velocity-0 note-on, and a step on
\* a velocity-0 note-on opens no note.
C21_VelocityZeroIsNoteOff ==
    /\ [](ex_pc = "returned" =>
             \A t \in 1..Len(ex_mid) : \A i \in 1..Len(ex_mid[t]) :
                 Replaceable(ex_mid[t][i]) =>
                    extract_notes([ticks_per_beat |-> 480,
                                   tracks |-> Replaced(ex_mid, t, i)])
                    = [notes |-> ex_notes, raised |-> "none"])
    /\ [](ex_pc = "loop" =>
             LET st == [tick |-> ex_tick, ongoing |-> ex_ongoing,
                        notes |-> ex_notes, raised |-> "none"]
             IN  /\ \A p \in Pitches, d \in Deltas :
                        extract_msg(st, Msg("note_on", p, 0, d))
                        = extract_msg(st, Msg("note_off", p, 0, d))
                 /\ \A p \in DOMAIN ex_ongoing : \A k \in 1..Len(ex_ongoing[p]) :
                        ex_ongoing[p][k][2] > 0)
    /\ [][MsgStep /\ HandledMsg.type = "note_on" /\ HandledMsg.velocity = 0 =>
             /\ DOMAIN ex_ongoing' \subseteq DOMAIN ex_ongoing
             /\ \A p \in DOMAIN ex_ongoing' :
                    Len(ex_ongoing'[p]) <= Len(ex_ongoing[p])]_vars

\* C21 witness: a note-on of pitch 60 was closed ten ticks later by a
\* note-on of velocity 0, and the note (60, 0, 10) was returned.
C21_Witness ==
    /\ ex_pc = "returned"
    /\ ex_mid = << << Msg("note_on", 60, 100, 0), Msg("note_on", 60, 0, 10) >> >>
    /\ NoteTuples(ex_notes) = << <<60, 0, 10, 100>> >>

\* The track being read, and the position of each note of the independent
\* pairing in it.
CurTrack == ex_mid[Len(ex_mid)]
CurPairs == LifoPairing(CurTrack, Len(CurTrack)).pairs

\* C22: tick accounting covers every message.  The tick is the sum of the
\* delta times of all messages of the track read so far, whatever their
\* kind; every step on a message adds its delta time to the tick, and a
\* message of an ignored type changes nothing else; each note emitted
\* starts at the sum of the deltas up to and including its note-on and ends
\* at the sum up to and including its closing message.
C22_TickAccounting ==
    /\ [](ex_pc = "loop" /\ Len(ex_mid) > 0 =>
             /\ ex_tick = TickAt(CurTrack, Len(CurTrack))
             /\ \A k \in 1..Len(CurPairs) :
                    LET on == CurPairs[k][1]
                        off == CurPairs[k][2]
                    IN  TickAt(CurTrack, off) > TickAt(CurTrack, on) =>
                           \E j \in 1..Len(ex_notes) :
                              /\ ex_notes[j].pitch = CurTrack[on].note
                              /\ ex_notes[j].start = TickAt(CurTrack, on)
                              /\ ex_notes[j].start + ex_notes[j].duration
                                    = TickAt(CurTrack, off))
    /\ [][MsgStep => ex_tick' = ex_tick + HandledMsg.time]_vars
    /\ [][MsgStep /\ HandledMsg.type = "other" =>
             ex_notes' = ex_notes /\ ex_ongoing' = ex_ongoing]_vars
    /\ [][MsgStep /\ Len(ex_notes') > Len(ex_notes) =>
             /\ ex_notes'[Len(ex_notes')].start + ex_notes'[Len(ex_notes')].duration
                   = ex_tick + HandledMsg.time
             /\ \E i \in 1..Len(CurTrack) :
                    /\ is_note_on(CurTrack[i])
                    /\ CurTrack[i].note = HandledMsg.note
                    /\ TickAt(CurTrack, i) = ex_notes'[Len(ex_notes')].start]_vars

\* C22 witness: an ignored message and an unmatched note-off, each with
\* delta 10, came before a note-on with delta 10; its note starts at tick 30
\* and ends at tick 40.
C22_Witness ==
    /\ ex_pc = "loop"
    /\ ex_mid = << << Msg("other", 0, 0, 10), Msg("note_off", 60, 0, 10),
                      Msg("note_on", 60, 100, 10), Msg("note_off", 60, 0, 10) >> >>
    /\ NoteTuples(ex_notes) = << <<60, 30, 10, 100>> >>
    /\ ex_tick = 40

\* The top of the stack of the pitch of the message just handled, before
\* the step.
TopBefore == ex_ongoing[HandledMsg.note][Len(ex_ongoing[HandledMsg.note])]

\* C23: a zero-length pairing is discarded and consumed.  When a note-off
\* of pitch p is handled at the tick of the most recently opened note-on of
\* p, no note is added and that note-on leaves the stack (the key goes when
\* the stack empties), so a later note-off pairs with the next older
\* note-on or with nothing; and every note collected has duration >= 1.
C23_ZeroLengthDiscarded ==
    /\ [][MsgStep /\ is_note_off(HandledMsg)
             /\ HandledMsg.note \in DOMAIN ex_ongoing
             /\ TopBefore[1] = ex_tick + HandledMsg.time
           => /\ ex_notes' = ex_notes
              /\ LET stack == ex_ongoing[HandledMsg.note]
                     rest == SubSeq(stack, 1, Len(stack) - 1)
                 IN  IF rest = <<>>
                     THEN HandledMsg.note \notin DOMAIN ex_ongoing'
                     ELSE ex_ongoing'[HandledMsg.note] = rest
              /\ \A p \in DOMAIN ex_ongoing \ {HandledMsg.note} :
                     p \in DOMAIN ex_ongoing' /\ ex_ongoing'[p] = ex_ongoing[p] ]_vars
    /\ [](\A j \in 1..Len(ex_notes) : ex_notes[j].duration >= 1)
    /\ [](ex_pc = "loop" /\ ex_mid =
              << << Msg("note_on", 60, 100, 0), Msg("note_on", 60, 100, 10),
                    Msg("note_off", 60, 0, 0), Msg("note_off", 60, 0, 10) >> >>
           => NoteTuples(ex_notes) = << <<60, 0, 20, 100>> >>)

\* C23 witness: the second note-on of pitch 60 was closed at its own tick
\* and discarded; the next note-off closed the first note-on.
C23_Witness ==
    /\ ex_pc = "returned"
    /\ ex_mid = << << Msg("note_on", 60, 100, 0), Msg("note_on", 60, 100, 10),
                      Msg("note_off", 60, 0, 0), Msg("note_off", 60, 0, 10) >> >>
    /\ NoteTuples(ex_notes) = << <<60, 0, 20, 100>> >>

\* The notes extract_notes collects from the track being read, alone.
CurNotes == extract_track_from(track_start(<<>>), CurTrack, 1).notes

\* Counts for pitch p in a track: note-ons of velocity > 0, closing
\* messages, notes among those collected, pairings of zero length among
\* those of the independent pairing (ticks[i] is the tick of message i),
\* and note-ons still open.
OnsOf(track, p) ==
    Cardinality({i \in 1..Len(track) :
        track[i].type = "note_on" /\ track[i].velocity > 0 /\ track[i].note = p})
OffsOf(track, p) ==
    Cardinality({i \in 1..Len(track) :
        /\ track[i].note = p
        /\ \/ track[i].type = "note_off"
           \/ track[i].type = "note_on" /\ track[i].velocity = 0})
EmittedOf(notes, p) == Cardinality({j \in 1..Len(notes) : notes[j].pitch = p})
DiscardedOf(track, pairs, ticks, p) ==
    Cardinality({k \in 1..Len(pairs) :
        track[pairs[k][1]].note = p /\ ticks[pairs[k][2]] = ticks[pairs[k][1]]})
OpenOf(ongoing, p) == IF p \in DOMAIN ongoing THEN Len(ongoing[p]) ELSE 0

RECURSIVE SumOver(_, _)
SumOver(ongoing, keys) ==
    IF keys = {} THEN 0
    ELSE LET p == CHOOSE q \in keys : TRUE
         IN  Len(ongoing[p]) + SumOver(ongoing, keys \ {p})
OpenCount(ongoing) == SumOver(ongoing, DOMAIN ongoing)

\* C27: each message is paired at most once.  A step on a note-on of
\* velocity > 0 opens one note and adds none; any other step adds at most
\* one note and closes at most one open note-on, and a note is added only
\* when one is closed.  So, per track and pitch, the note-ons of velocity
\* > 0 number the notes collected plus the zero-length pairings discarded
\* plus the note-ons still open, and the notes collected never outnumber
\* the closing messages.
C27_PairedAtMostOnce ==
    /\ [][MsgStep =>
             IF HandledMsg.type = "note_on" /\ HandledMsg.velocity > 0
             THEN /\ ex_notes' = ex_notes
                  /\ OpenCount(ex_ongoing') = OpenCount(ex_ongoing) + 1
             ELSE /\ Len(ex_notes') \in {Len(ex_notes), Len(ex_notes) + 1}
                  /\ SubSeq(ex_notes', 1, Len(ex_notes)) = ex_notes
                  /\ OpenCount(ex_ongoing') \in
                        {OpenCount(ex_ongoing), OpenCount(ex_ongoing) - 1}
                  /\ Len(ex_notes') > Len(ex_notes) =>
                        OpenCount(ex_ongoing') = OpenCount(ex_ongoing) - 1]_vars
    /\ [](ex_pc = "loop" /\ Len(ex_mid) > 0 =>
             LET track == CurTrack
                 notes == CurNotes
                 pairs == CurPairs
                 ticks == [i \in 1..Len(track) |-> TickAt(track, i)]
             IN  /\ Len(notes) <= Len(ex_notes)
                 /\ SubSeq(ex_notes, Len(ex_notes) - Len(notes) + 1, Len(ex_notes))
                       = notes
                 /\ \A p \in Pitches :
                        /\ OnsOf(track, p) = EmittedOf(notes, p)
                                               + DiscardedOf(track, pairs, ticks, p)
                                               + OpenOf(ex_ongoing, p)
                        /\ EmittedOf(notes, p) + DiscardedOf(track, pairs, ticks, p)
                              <= OffsOf(track, p))

\* C27 witness: two note-ons of pitch 60 at tick 0; a note-off at tick 0
\* made a zero-length pairing with the second, and a note-off at tick 10
\* closed the first into the one note collected.
C27_Witness ==
    /\ ex_pc = "loop"
    /\ ex_mid = << << Msg("note_on", 60, 100, 0), Msg("note_on", 60, 100, 0),
                      Msg("note_off", 60, 0, 0), Msg("note_off", 60, 0, 10) >> >>
    /\ NoteTuples(ex_notes) = << <<60, 0, 10, 100>> >>
    /\ ex_ongoing = EmptyDict

\* C28: every NoteEvent extract_notes builds is valid and audible.  No
\* construction raises; each note has pitch in [0,127], start >= 0,
\* duration >= 1 and velocity in [1,127]; and the note-on the encoder makes
\* of it has velocity > 0, so it is not read back as a note-off.
C28_ExtractedNotesValid ==
    /\ ex_pc # "raised"
    /\ \A j \in 1..Len(ex_notes) :
          LET n == ex_notes[j]
              on == note_events(n)[1][3]
          IN  /\ n.pitch \in 0..127
              /\ n.start >= 0
              /\ n.duration >= 1
              /\ n.velocity \in 1..127
              /\ NoteEvent(n.pitch, n.start, n.duration, n.velocity)
                    = [raised |-> "none", obj |-> n]
              /\ on.type = "note_on" /\ on.velocity > 0
              /\ extract_msg(track_start(<<>>), on).ongoing # EmptyDict

\* C28 witness: a velocity-0 note-on came first and opened nothing; the
\* note collected afterwards has velocity 100.
C28_Witness ==
    /\ ex_pc = "loop"
    /\ ex_mid = << << Msg("note_on", 61, 0, 0), Msg("note_on", 61, 100, 0),
                      Msg("note_off", 61, 0, 10) >> >>
    /\ NoteTuples(ex_notes) = << <<61, 0, 10, 100>> >>

\* Two notes are disjoint in time (touching allowed), or one lies within
\* the other.
DisjointNotes(a, b) ==
    a.start + a.duration <= b.start \/ b.start + b.duration <= a.start
NestedNotes(a, b) ==
    \/ a.start <= b.start /\ b.start + b.duration <= a.start + a.duration
    \/ b.start <= a.start /\ a.start + a.duration <= b.start + b.duration

\* C29: the open-note stacks.  At every step, no key of ongoing has an
\* empty stack, and each stack holds start ticks that do not decrease from
\* bottom to top and do not exceed the tick; and any two notes of one pitch
\* collected from one track are disjoint or nested, never partially
\* overlapping.
C29_StackInvariant ==
    ex_pc = "loop" =>
        /\ \A p \in DOMAIN ex_ongoing :
               /\ ex_ongoing[p] # <<>>
               /\ \A k \in 1..Len(ex_ongoing[p]) : ex_ongoing[p][k][1] <= ex_tick
               /\ \A k \in 1..(Len(ex_ongoing[p]) - 1) :
                      ex_ongoing[p][k][1] <= ex_ongoing[p][k + 1][1]
        /\ Len(ex_mid) > 0 =>
               LET notes == CurNotes
               IN  \A i, j \in 1..Len(notes) :
                      i < j /\ notes[i].pitch = notes[j].pitch =>
                         DisjointNotes(notes[i], notes[j])
                         \/ NestedNotes(notes[i], notes[j])

\* C29 witness: after one note of pitch 60 was collected, two more note-ons
\* of pitch 60 are open, opened at ticks 10 and 20.
C29_Witness ==
    /\ ex_pc = "loop"
    /\ ex_tick = 20
    /\ 60 \in DOMAIN ex_ongoing
    /\ ex_ongoing[60] = << <<10, 100>>, <<20, 100>> >>
    /\ NoteTuples(ex_notes) = << <<60, 0, 10, 100>> >>

(***************************************************************************)
(* Specification SpecRoundTrip: notes_to_midi on any list of valid         *)
(* NoteEvents, then extract_notes on the file it returns.                  *)
(***************************************************************************)

MaxNotes == 3       \* notes handed to the encoder

NotePitches == {60, 61}
NoteStarts == {0, 1}
NoteDurations == {1, 2}
NoteVelocities == {0, 64, 100}

\* The valid NoteEvents over these values, built by the constructor.
NoteUniverse ==
    {NoteEvent(p, s, d, v).obj :
        p \in NotePitches, s \in NoteStarts, d \in NoteDurations,
        v \in NoteVelocities}

NoteLists(n) == UNION {[1..k -> NoteUniverse] : k \in 0..n}

DEFAULT_TICKS_PER_BEAT == 480

\* The single note (60, 0, 10, 100).
EncodingExample == << NoteEvent(60, 0, 10, 100).obj >>

InitRoundTrip ==
    /\ MainIdle
    /\ NoteEventIdle
    /\ ExtractIdle
    /\ rt_notes \in NoteLists(MaxNotes) \cup {EncodingExample}
    /\ rt_pc = "start"
    /\ rt_mid = NoMid
    /\ rt_back = NoNotes

\* mid = notes_to_midi(notes)
RtEncode ==
    /\ rt_pc = "start"
    /\ rt_mid' = notes_to_midi(rt_notes, DEFAULT_TICKS_PER_BEAT)
    /\ rt_pc' = "encoded"
    /\ UNCHANGED <<rt_notes, rt_back, ne_vars, ex_vars, m_vars>>

\* back = extract_notes(mid)
RtExtract ==
    /\ rt_pc = "encoded"
    /\ rt_back' = extract_notes(rt_mid)
    /\ rt_pc' = "extracted"
    /\ UNCHANGED <<rt_notes, rt_mid, ne_vars, ex_vars, m_vars>>

NextRoundTrip == RtEncode \/ RtExtract

SpecRoundTrip == InitRoundTrip /\ [][NextRoundTrip]_vars

(***************************************************************************)
(* Claims about the round trip                                             *)
(***************************************************************************)

Keys(notes) == {identity_key(notes[i]) : i \in 1..Len(notes)}

DistinctKeys(notes) ==
    \A i, j \in 1..Len(notes) :
        identity_key(notes[i]) = identity_key(notes[j]) => i = j

\* C4: round trip of identity keys.  For every list of valid NoteEvents,
\* extracting the track produced by notes_to_midi yields exactly the set of
\* (pitch, start, duration) keys of the list.
C4_RoundTripKeys ==
    rt_pc = "extracted" =>
        /\ rt_back.raised = "none"
        /\ Keys(rt_back.notes) = Keys(rt_notes)

\* C5: round trip of velocity.  When no two notes of the list share a key,
\* each note recovered by the round trip has the velocity of the original
\* note with that key, in whatever order the notes were passed.
C5_RoundTripVelocity ==
    rt_pc = "extracted" /\ DistinctKeys(rt_notes) =>
        \A i \in 1..Len(rt_back.notes), j \in 1..Len(rt_notes) :
            identity_key(rt_back.notes[i]) = identity_key(rt_notes[j])
            => rt_back.notes[i].velocity = rt_notes[j].velocity

\* The track notes_to_midi returned.
RtTrack == rt_mid.tracks[1]
\* notes_to_midi has just returned (rt_mid is not changed afterwards).
RtEncoded == rt_pc = "encoded"

\* The absolute tick of every message of a track: the running sums of the
\* time fields.
RECURSIVE RunningSums(_, _, _)
RunningSums(track, i, sum) ==
    IF i > Len(track) THEN <<>>
    ELSE <<sum + track[i].time>> \o RunningSums(track, i + 1, sum + track[i].time)
AbsTicks(track) == RunningSums(track, 1, 0)

\* C11: encoder event order.  In the stream notes_to_midi produces, in
\* whatever order the notes were supplied, absolute ticks never decrease
\* (no delta time is negative, and the ticks of the sorted event list
\* ascend), and no note-on precedes a note-off of the same absolute tick.
C11_EncoderEventOrder ==
    RtEncoded =>
        LET ev == _note_events_to_messages(rt_notes)
            at == AbsTicks(RtTrack)
        IN  /\ \A i \in 1..Len(RtTrack) : RtTrack[i].time >= 0
            /\ \A i \in 1..(Len(ev) - 1) : ev[i][1] <= ev[i + 1][1]
            /\ \A i, j \in 1..Len(RtTrack) :
                   i < j /\ at[i] = at[j] /\ RtTrack[j].type = "note_off"
                   => RtTrack[i].type # "note_on"

\* C11 witness: the note supplied first starts at the tick where the note
\* supplied second ends, and the stream has the second note's note-off
\* directly before the first note's note-on, at the same tick.
C11_Witness ==
    /\ rt_pc = "encoded"
    /\ Len(rt_notes) = 2
    /\ rt_notes[1].start = rt_notes[2].start + rt_notes[2].duration
    /\ RtTrack[2].type = "note_off" /\ RtTrack[2].note = rt_notes[2].pitch
    /\ RtTrack[3].type = "note_on" /\ RtTrack[3].note = rt_notes[1].pitch
    /\ RtTrack[3].time = 0

\* Number of messages of the track that satisfy the description.
NoteOnsAt(track, at, pitch, velocity, tick) ==
    Cardinality({i \in 1..Len(track) :
                    /\ track[i].type = "note_on" /\ track[i].note = pitch
                    /\ track[i].velocity = velocity /\ at[i] = tick})
NoteOffsAt(track, at, pitch, tick) ==
    Cardinality({i \in 1..Len(track) :
                    /\ track[i].type = "note_off" /\ track[i].note = pitch
                    /\ at[i] = tick})

\* C12: encoder delta times.  Every message emitted has a time >= 0 equal
\* to its absolute tick minus that of the message before it (0 before the
\* first), so that summing the times up to a message gives its absolute
\* tick: each note has its note-on at the running sum start and its
\* note-off at the running sum start + duration (counted with multiplicity).
C12_EncoderDeltaTimes ==
    RtEncoded =>
        LET ev == _note_events_to_messages(rt_notes)
            at == AbsTicks(RtTrack)
        IN  /\ \A i \in 1..Len(ev) :
                   /\ RtTrack[i].time >= 0
                   /\ RtTrack[i].time = ev[i][1] - (IF i = 1 THEN 0 ELSE ev[i - 1][1])
                   /\ at[i] = ev[i][1]
            /\ \A k \in 1..Len(rt_notes) :
                   LET n == rt_notes[k]
                   IN  /\ NoteOnsAt(RtTrack, at, n.pitch, n.velocity, n.start)
                          = Cardinality({j \in 1..Len(rt_notes) :
                                /\ rt_notes[j].pitch = n.pitch
                                /\ rt_notes[j].velocity = n.velocity
                                /\ rt_notes[j].start = n.start})
                       /\ NoteOffsAt(RtTrack, at, n.pitch, n.start + n.duration)
                          = Cardinality({j \in 1..Len(rt_notes) :
                                /\ rt_notes[j].pitch = n.pitch
                                /\ rt_notes[j].start + rt_notes[j].duration
                                      = n.start + n.duration})

\* C12 witness: three notes were encoded and some message has a positive
\* time that is less than its absolute tick.
C12_Witness ==
    /\ rt_pc = "encoded"
    /\ Len(rt_notes) = 3
    /\ \E i \in 1..Len(RtTrack) :
          RtTrack[i].time > 0 /\ AbsTicks(RtTrack)[i] > RtTrack[i].time

\* C13: encoder output shape.  For n notes the file has one track of
\* 2n + 1 messages: per note one note-on with its pitch and velocity and one
\* note-off with its pitch, and end_of_track with time 0 as the last message
\* and nowhere else.  The single note (60, 0, 10, 100) gives note-on(60)
\* time 0, note-off(60) time 10, end_of_track time 0.
C13_EncoderOutputShape ==
    RtEncoded =>
        LET n == Len(rt_notes)
        IN  /\ Len(rt_mid.tracks) = 1
            /\ Len(RtTrack) = 2 * n + 1
            /\ RtTrack[2 * n + 1].type = "end_of_track"
            /\ RtTrack[2 * n + 1].time = 0
            /\ \A i \in 1..(2 * n) : RtTrack[i].type \in {"note_on", "note_off"}
            /\ \A k \in 1..n :
                   /\ Cardinality({i \in 1..(2 * n) :
                          /\ RtTrack[i].type = "note_on"
                          /\ RtTrack[i].note = rt_notes[k].pitch
                          /\ RtTrack[i].velocity = rt_notes[k].velocity})
                      = Cardinality({j \in 1..n :
                          /\ rt_notes[j].pitch = rt_notes[k].pitch
                          /\ rt_notes[j].velocity = rt_notes[k].velocity})
                   /\ Cardinality({i \in 1..(2 * n) :
                          /\ RtTrack[i].type = "note_off"
                          /\ RtTrack[i].note = rt_notes[k].pitch})
                      = Cardinality({j \in 1..n :
                          rt_notes[j].pitch = rt_notes[k].pitch})
            /\ rt_notes = EncodingExample =>
                   RtTrack = << Msg("note_on", 60, 100, 0), Msg("note_off", 60, 0, 10),
                                Msg("end_of_track", 0, 0, 0) >>

\* C13 witness: the single note (60, 0, 10, 100) was encoded into three
\* messages.
C13_Witness ==
    /\ rt_pc = "encoded"
    /\ rt_notes = EncodingExample
    /\ Len(RtTrack) = 3

\* The (pitch, start, duration) keys of a list, in list order.
KeyList(notes) == [i \in 1..Len(notes) |-> identity_key(notes[i])]

\* Note a ends at exactly the tick where note b of the same pitch starts.
Touching(a, b) == a.pitch = b.pitch /\ a.start + a.duration = b.start

\* C24: touching notes survive encoding.  For two notes of one pitch, the
\* first ending at the tick where the second starts, supplied in either
\* order: in the track notes_to_midi produces the first note's note-off
\* comes before the second note's note-on, and extract_notes on that track
\* returns two notes, with the keys of the two supplied.
C24_TouchingNotesSurvive ==
    rt_pc = "extracted" /\ Len(rt_notes) = 2 =>
        \A x, y \in 1..2 :
            x # y /\ Touching(rt_notes[x], rt_notes[y]) =>
                LET a == rt_notes[x]
                    b == rt_notes[y]
                    ticks == AbsTicks(RtTrack)
                IN  /\ \E i, j \in 1..Len(RtTrack) :
                           /\ i < j
                           /\ RtTrack[i].type = "note_off"
                           /\ RtTrack[i].note = a.pitch
                           /\ ticks[i] = b.start
                           /\ RtTrack[j].type = "note_on"
                           /\ RtTrack[j].note = b.pitch
                           /\ RtTrack[j].velocity = b.velocity
                           /\ ticks[j] = b.start
                    /\ rt_back.raised = "none"
                    /\ Len(rt_back.notes) = 2
                    /\ Keys(rt_back.notes) = {identity_key(a), identity_key(b)}

\* The same for notes that sound: with both velocities >= 1 the two notes
\* come back.
TouchingAudibleSurvive ==
    rt_pc = "extracted" /\ Len(rt_notes) = 2
        /\ rt_notes[1].velocity >= 1 /\ rt_notes[2].velocity >= 1 =>
        \A x, y \in 1..2 :
            x # y /\ Touching(rt_notes[x], rt_notes[y]) =>
                /\ rt_back.raised = "none"
                /\ KeyList(rt_back.notes)
                      = <<identity_key(rt_notes[x]), identity_key(rt_notes[y])>>

(***************************************************************************)
(* Specification SpecNested: notes_to_midi, then extract_notes, on lists   *)
(* of audible notes placed within four ticks, so that notes of one pitch   *)
(* nest two deep, touch, coincide or overlap in part.                      *)
(***************************************************************************)

MaxNestedNotes == 3 \* notes handed to the encoder

NestedSpans == {<<0, 1>>, <<0, 2>>, <<0, 3>>, <<1, 1>>, <<1, 2>>, <<2, 1>>}

\* Valid NoteEvents of velocity >= 1: <<start, duration>> from NestedSpans.
NestedUniverse ==
    {NoteEvent(p, sp[1], sp[2], v).obj :
        p \in NotePitches, sp \in NestedSpans, v \in {1, 100}}

InitNested ==
    /\ MainIdle
    /\ NoteEventIdle
    /\ ExtractIdle
    /\ rt_notes \in UNION {[1..k -> NestedUniverse] : k \in 0..MaxNestedNotes}
    /\ rt_pc = "start"
    /\ rt_mid = NoMid
    /\ rt_back = NoNotes

SpecNested == InitNested /\ [][NextRoundTrip]_vars

\* Any two notes of one pitch in the list are disjoint in time (touching
\* allowed) or one lies within the other.
NestedOrDisjoint(notes) ==
    \A i, j \in 1..Len(notes) :
        i < j /\ notes[i].pitch = notes[j].pitch =>
            DisjointNotes(notes[i], notes[j]) \/ NestedNotes(notes[i], notes[j])

\* C26: round trip for nested-or-disjoint notes.  For every list of valid
\* NoteEvents of velocity >= 1 whose notes of one pitch are pairwise
\* disjoint or nested, in every order of the list, extract_notes on the
\* file notes_to_midi makes of it raises nothing and returns exactly the
\* (pitch, start, duration) keys of the list, one note per note supplied.
C26_NestedRoundTrip ==
    /\ rt_pc = "extracted"
    /\ \A i \in 1..Len(rt_notes) : rt_notes[i].velocity >= 1
    /\ NestedOrDisjoint(rt_notes)
    => /\ rt_back.raised = "none"
       /\ Keys(rt_back.notes) = Keys(rt_notes)
       /\ Len(rt_back.notes) = Len(rt_notes)

\* C26 witness: (60, 0, 3) holds (60, 1, 1) and (60, 2, 1), which touch;
\* they were supplied out of order and all three came back.
C26_Witness ==
    /\ rt_pc = "extracted"
    /\ KeyList(rt_notes) = << <<60, 2, 1>>, <<60, 0, 3>>, <<60, 1, 1>> >>
    /\ rt_notes[2].velocity = 1
    /\ KeyList(rt_back.notes) = << <<60, 0, 3>>, <<60, 1, 1>>, <<60, 2, 1>> >>

(***************************************************************************)
(* Specification Spec: one run of main(file_a, file_b, out_file).          *)
(*                                                                         *)
(* The initial states are the file systems main can be started on: either  *)
(* both inputs hold any single-track file over MainMessages (and the       *)
(* output directory is the existing, empty "."), or each input is missing, *)
(* undecodable or one of two fixed files while the output path, its        *)
(* directory and the files already there vary.                             *)
(***************************************************************************)

MaxTrackLen == 2    \* messages per track of an input file

MainMessages ==
    {Msg("note_on", 60, v, t) : v \in {64, 100}, t \in {1, 2}}
    \cup {Msg("note_off", 60, 0, t) : t \in {1, 2}}

MainTracks == UNION {[1..k -> MainMessages] : k \in 0..MaxTrackLen}

MainMids == {[ticks_per_beat |-> 480, tracks |-> <<t>>] : t \in MainTracks}

\* Two fixed files: one note (60, 1, 2) at 480 ticks per beat, and two
\* tracks holding (60, 2, 1) and (61, 1, 1) at 96.
MidX == [ticks_per_beat |-> 480,
         tracks |-> << << Msg("note_on", 60, 64, 1), Msg("note_off", 60, 0, 2) >> >>]
MidY == [ticks_per_beat |-> 96,
         tracks |-> << << Msg("other", 0, 0, 1), Msg("note_on", 60, 100, 1),
                          Msg("note_off", 60, 0, 1) >>,
                       << Msg("note_on", 61, 100, 1), Msg("note_on", 61, 0, 1) >> >>]

\* What a path can hold when main starts: nothing, an undecodable file, a
\* MIDI file, or a name os.stat fails on.
Absent == [kind |-> "absent"]
Unstatable == [kind |-> "unstatable"]

\* The file system with the given directories and <<path, content>> entries.
FsOf(dirs, entries) ==
    [files |-> [q \in {e[1] : e \in {e \in entries : e[2] \notin {Absent, Unstatable}}} |->
                   (CHOOSE e \in entries : e[1] = q)[2]],
     dirs |-> dirs,
     unstatable |-> {e[1] : e \in {e \in entries : e[2] = Unstatable}}]

MaxExisting == 2    \* numbered files <stem>_1 .. that may exist beforehand

OutFiles == {Path(d, "out", 0, x) : d \in {".", "new"}, x \in {".mid", ".txt", ""}}

\* The file <stem>_<i><extension, or .mid when there is none> beside out.
NumberedFile(out, i) ==
    Path(out.parent, out.stem, i, IF out.suffix = "" THEN ".mid" ELSE out.suffix)

InitFiles ==
    /\ m_args = [file_a |-> FileA, file_b |-> FileB, out_file |-> OutFile]
    /\ \E a \in MainMids, b \in MainMids :
          m_fs = FsOf({"."}, {<<FileA, MidiContent(a)>>, <<FileB, MidiContent(b)>>})

\* Each input is missing, undecodable, unstatable or a fixed file; the
\* requested output and its numbered neighbours exist or not; the output
\* directory exists or not (and is empty when it does not).
InitEnvironment ==
    /\ \E out \in OutFiles :
          m_args = [file_a |-> FileA, file_b |-> FileB, out_file |-> out]
    /\ \E a \in {Absent, Garbage, Unstatable, MidiContent(MidX)},
          b \in {Absent, Garbage, Unstatable, MidiContent(MidY)},
          o \in [0..MaxExisting -> {Absent, Garbage, Unstatable}],
          newdir \in BOOLEAN :
          /\ m_args.out_file.parent = "new" /\ ~newdir =>
                 \A i \in 0..MaxExisting : o[i] = Absent
          /\ m_args.out_file.parent = "." => newdir = FALSE
          /\ m_fs = FsOf(IF newdir THEN {".", "new"} ELSE {"."},
                         { <<FileA, a>>, <<FileB, b>>, <<m_args.out_file, o[0]>> }
                         \cup {<<NumberedFile(m_args.out_file, i), o[i]>> :
                                  i \in 1..MaxExisting})

\* main is called: nothing is computed yet, and this is the first run.
MainCalled ==
    /\ NoteEventIdle
    /\ ExtractIdle
    /\ RoundTripIdle
    /\ m_pc = "check_a"
    /\ MainFresh
    /\ m_runs = [starts |-> <<m_fs>>, saved |-> <<>>]
    /\ c_other = NoOther

Init ==
    /\ InitFiles \/ InitEnvironment
    /\ MainCalled

Next ==
    \/ MainCheckA
    \/ MainCheckB
    \/ MainLoad
    \/ MainExtract
    \/ MainDiff
    \/ MainOutPath
    \/ MainProbe
    \/ MainFound
    \/ MainEncode
    \/ MainSave
    \/ MainReportFailed
    \/ MainReportSaved

Spec == Init /\ [][Next]_vars

(***************************************************************************)
(* Specification SpecRuns: main called again and again with the same       *)
(* arguments, each run starting on the file system the run before left     *)
(* (no other process touches it).                                          *)
(***************************************************************************)

MaxRuns == 3        \* runs of main in a sequence

\* The run is over (main returned, or an exception left it) and main is
\* called again.  m_runs keeps the file system each run started on and the
\* paths the finished runs reported as saved.
MainAgain ==
    /\ m_pc \in {"returned", "crashed"}
    /\ Len(m_runs.starts) < MaxRuns
    /\ m_runs' = [starts |-> Append(m_runs.starts, m_fs),
                  saved |-> IF /\ m_pc = "returned"
                               /\ m_printed[Len(m_printed)][1] = "Saved diff MIDI"
                            THEN Append(m_runs.saved, m_out_path)
                            ELSE m_runs.saved]
    /\ m_pc' = "check_a"
    /\ m_mids' = <<NoMid, NoMid>>
    /\ m_lists' = << <<>>, <<>> >>
    /\ m_only' = <<{}, {}>>
    /\ m_diff_notes' = {}
    /\ m_out_path' = NoPath
    /\ m_diff_mid' = NoMid
    /\ m_printed' = <<>>
    /\ m_probe' = NoProbe
    /\ UNCHANGED <<m_args, m_fs, d_prev, c_other, ne_vars, ex_vars, rt_vars>>

InitRuns ==
    /\ InitEnvironment
    /\ MainCalled

NextRuns == Next \/ MainAgain

SpecRuns == InitRuns /\ [][NextRuns]_vars

(***************************************************************************)
(* Specification SpecConcurrent: two runs of main in two processes, with   *)
(* the same requested output path on one file system.  Each statement of   *)
(* main, each test of the loop of _determine_out_path, the save and the    *)
(* report after it are one step each; between any two steps the other      *)
(* process may run.                                                        *)
(* The m_ variables hold the locals of the process taking steps, c_other   *)
(* those of the process that waits.                                        *)
(***************************************************************************)

\* The scheduler lets the other process run: the two sets of locals change
\* places.  The file system is shared.
Switch ==
    /\ c_other.pc \notin {"idle", "returned", "crashed"}
    /\ c_other' = [args |-> m_args, pc |-> m_pc, mids |-> m_mids,
                   lists |-> m_lists, only |-> m_only,
                   diff_notes |-> m_diff_notes, out_path |-> m_out_path,
                   diff_mid |-> m_diff_mid, printed |-> m_printed,
                   probe |-> m_probe]
    /\ m_args' = c_other.args
    /\ m_pc' = c_other.pc
    /\ m_mids' = c_other.mids
    /\ m_lists' = c_other.lists
    /\ m_only' = c_other.only
    /\ m_diff_notes' = c_other.diff_notes
    /\ m_out_path' = c_other.out_path
    /\ m_diff_mid' = c_other.diff_mid
    /\ m_printed' = c_other.printed
    /\ m_probe' = c_other.probe
    /\ UNCHANGED <<m_fs, d_prev, m_runs, ne_vars, ex_vars, rt_vars>>

\* Both input files hold one of the two fixed files; the requested output
\* and its numbered neighbours exist or not.  One run is main(a, b, out),
\* the other is main(x, y, out) for any of the two inputs as x and y.
InitConcurrent ==
    /\ NoteEventIdle
    /\ ExtractIdle
    /\ RoundTripIdle
    /\ \E out \in {OutFile, Path("new", "out", 0, ".mid")} :
          /\ m_args = [file_a |-> FileA, file_b |-> FileB, out_file |-> out]
          /\ \E x \in {FileA, FileB}, y \in {FileA, FileB} :
                c_other = Called([file_a |-> x, file_b |-> y, out_file |-> out])
    /\ \E a \in {MidX, MidY}, b \in {MidX, MidY},
          o \in [0..MaxExisting -> {Absent, Garbage}] :
          /\ m_args.out_file.parent = "new" => \A i \in 0..MaxExisting : o[i] = Absent
          /\ m_fs = FsOf({"."},
                         { <<FileA, MidiContent(a)>>, <<FileB, MidiContent(b)>>,
                           <<m_args.out_file, o[0]>> }
                         \cup {<<NumberedFile(m_args.out_file, i), o[i]>> :
                                  i \in 1..MaxExisting})
    /\ m_pc = "check_a"
    /\ MainFresh
    /\ m_runs = [starts |-> <<m_fs>>, saved |-> <<>>]

NextConcurrent == Next \/ Switch

SpecConcurrent == InitConcurrent /\ [][NextConcurrent]_vars

\* What a run printed last, and whether it reported its output as saved.
LastPrinted(printed) == printed[Len(printed)]
ReportedSaved(pc, printed, out_path) ==
    /\ pc = "returned"
    /\ printed # <<>>
    /\ LastPrinted(printed) = <<"Saved diff MIDI", out_path>>
\* The run has found its candidate unused and has not saved yet; the path
\* it is going to write.
Resolved(pc) == pc \in {"found", "encode", "save"}
ResolvedPath(pc, probe, out_path) ==
    IF pc = "found" THEN probe.candidate ELSE out_path
\* The run's save call has written its file.
HasSaved(pc, printed, out_path) ==
    pc = "report_saved" \/ ReportedSaved(pc, printed, out_path)

\* C25: output path resolution is not atomic against concurrent writers.
\* Of two runs with the same requested output path: while both have found
\* a candidate unused and neither has saved, the two have the same path; a
\* run that found its candidate unused keeps that path whatever the other
\* run has saved there since; a save that succeeds leaves the saving run's
\* diff at the path, replacing what the other run wrote; and once both
\* have saved to one path, the one file holds the diff of one of them
\* (the steps meant are those of the running process, c_other unchanged).
C25_ResolutionRace ==
    /\ [](Resolved(m_pc) /\ Resolved(c_other.pc) =>
             ResolvedPath(m_pc, m_probe, m_out_path)
             = ResolvedPath(c_other.pc, c_other.probe, c_other.out_path))
    /\ [][c_other' = c_other /\ m_pc = "found" /\ m_pc' = "encode" =>
             m_out_path' = m_probe.candidate]_vars
    /\ [][c_other' = c_other /\ m_pc = "save" /\ m_pc' = "report_saved" =>
             m_fs'.files[m_out_path] = MidiContent(m_diff_mid)]_vars
    /\ [](/\ HasSaved(m_pc, m_printed, m_out_path)
          /\ HasSaved(c_other.pc, c_other.printed, c_other.out_path)
          /\ m_out_path = c_other.out_path
          => m_fs.files[m_out_path] \in
                {MidiContent(m_diff_mid), MidiContent(c_other.diff_mid)})

\* C25 witness: nothing but the two inputs was there at the start; both
\* runs found out.mid unused and both reported it as saved.  The run that
\* saved first reported last: the file holds the other run's diff, and
\* the diff this run reported as saved is gone.
C25_Witness ==
    /\ DOMAIN m_runs.starts[1].files = {FileA, FileB}
    /\ ReportedSaved(m_pc, m_printed, m_out_path)
    /\ ReportedSaved(c_other.pc, c_other.printed, c_other.out_path)
    /\ m_out_path = OutFile
    /\ c_other.out_path = OutFile
    /\ m_diff_mid # c_other.diff_mid
    /\ m_fs.files[OutFile] = MidiContent(c_other.diff_mid)

(***************************************************************************)
(* Specification SpecDiff: the differ of main (lines 90-99) on any two     *)
(* lists extract_notes can return, run on (A, B) and then on (B, A).       *)
(***************************************************************************)

MaxListLen == 2     \* notes per extracted list

DiffUniverse ==
    {NoteEvent(p, s, 1, v).obj : p \in {60, 61}, s \in {0, 1}, v \in {64, 100}}

\* Lists as extract_notes returns them: sorted by start.
DiffLists ==
    {l \in UNION {[1..k -> DiffUniverse] : k \in 0..MaxListLen} :
        \A i \in 1..(Len(l) - 1) : l[i].start <= l[i + 1].start}

InitDiff ==
    /\ NoteEventIdle
    /\ ExtractIdle
    /\ RoundTripIdle
    /\ m_args = [file_a |-> FileA, file_b |-> FileB, out_file |-> OutFile]
    /\ m_fs = EmptyFs
    /\ m_pc = "diff"
    /\ m_mids = <<NoMid, NoMid>>
    /\ m_lists \in DiffLists \X DiffLists
    /\ m_only = <<{}, {}>>
    /\ m_diff_notes = {}
    /\ m_out_path = NoPath
    /\ m_diff_mid = NoMid
    /\ m_printed = <<>>
    /\ d_prev = <<>>
    /\ m_runs = NoRuns
    /\ c_other = NoOther
    /\ m_probe = NoProbe

\* The differ has run on (A, B): its results are kept and it is started
\* again on (B, A).
DiffSwap ==
    /\ m_pc = "out_path"
    /\ d_prev = <<>>
    /\ d_prev' = <<[only |-> m_only, printed |-> m_printed,
                    diff_notes |-> m_diff_notes]>>
    /\ m_lists' = <<m_lists[2], m_lists[1]>>
    /\ m_pc' = "diff"
    /\ m_only' = <<{}, {}>>
    /\ m_diff_notes' = {}
    /\ m_printed' = <<>>
    /\ UNCHANGED <<m_args, m_fs, m_mids, m_out_path, m_diff_mid, m_runs,
                   c_other, m_probe, ne_vars, ex_vars, rt_vars>>

NextDiff == MainDiff \/ DiffSwap

SpecDiff == InitDiff /\ [][NextDiff]_vars

(***************************************************************************)
(* Claims about the differ and about main                                  *)
(***************************************************************************)

SymDiff(S, T) == (S \ T) \cup (T \ S)
KeysOfSet(S) == {identity_key(n) : n \in S}

Saved ==
    /\ m_pc = "returned"
    /\ m_printed # <<>>
    /\ m_printed[Len(m_printed)][1] = "Saved diff MIDI"

\* C1: after a successful run of main the output file holds only the notes
\* that differ: extracting the written file yields, as a set of (pitch,
\* start, duration), exactly the keys that occur in exactly one of
\* extract(A) and extract(B).
C1_OutputIsSymmetricDifference ==
    Saved =>
        LET back == extract_notes(m_fs.files[m_out_path].mid)
        IN  /\ back.raised = "none"
            /\ Keys(back.notes) = SymDiff(Keys(m_lists[1]), Keys(m_lists[2]))

\* C3: the differ works on sets keyed by (pitch, start, duration).  A key is
\* in the combined output iff it occurs in exactly one of A and B, and only
\* keys absent from the other input are counted in only_in_a / only_in_b,
\* whatever the velocities.
C3_DiffKeyedByPlacement ==
    m_pc = "out_path" =>
        /\ KeysOfSet(m_diff_notes) = SymDiff(Keys(m_lists[1]), Keys(m_lists[2]))
        /\ KeysOfSet(m_only[1]) = Keys(m_lists[1]) \ Keys(m_lists[2])
        /\ KeysOfSet(m_only[2]) = Keys(m_lists[2]) \ Keys(m_lists[1])

\* C6: diffing a collection against itself is empty.  When A = B (the empty
\* collection included), only_in_a and only_in_b are empty, both printed
\* counts are 0 and diff_notes has no member.
C6_SelfDiffEmpty ==
    m_pc = "out_path" /\ m_lists[1] = m_lists[2] =>
        /\ m_only = <<{}, {}>>
        /\ m_printed = << <<"Notes only in A", 0>>, <<"Notes only in B", 0>> >>
        /\ m_diff_notes = {}

\* C6 witness: a list of two notes was diffed against itself.
C6_Witness ==
    /\ m_pc = "out_path"
    /\ m_lists[1] = m_lists[2]
    /\ Len(m_lists[1]) = 2
    /\ Len(m_printed) = 2

\* C7: the diff is symmetric.  After the runs on (A, B) and on (B, A) the
\* two combined outputs have the same members, and the printed counts of
\* "only in A" and "only in B" are those of the first run, swapped.
C7_DiffSymmetric ==
    m_pc = "out_path" /\ d_prev # <<>> =>
        /\ m_diff_notes = d_prev[1].diff_notes
        /\ m_printed[1][2] = d_prev[1].printed[2][2]
        /\ m_printed[2][2] = d_prev[1].printed[1][2]

\* C7 witness: both runs are done and the two counts differ.
C7_Witness ==
    /\ m_pc = "out_path"
    /\ d_prev # <<>>
    /\ Len(m_printed) = 2
    /\ m_printed[1][2] = 2
    /\ m_printed[2][2] = 1

\* The file system the current run of main started on.
CurrentStart == m_runs.starts[Len(m_runs.starts)]

\* C14: output path resolution.  _determine_out_path returns the requested
\* path unchanged when it does not exist; otherwise it returns
\* <stem>_<i><suffix> in the same directory for the smallest i >= 1 whose
\* path does not exist (i is at most the number of existing files plus one,
\* so the search ends), <suffix> being the requested extension, or .mid when
\* there is none.  With out.mid existing the result is out_1.mid, and
\* out_2.mid when that exists too.
C14_OutPathResolution ==
    m_pc \in {"encode", "save"} =>
        LET out == m_args.out_file
        IN  /\ ~exists(m_fs, out) => m_out_path = out
            /\ exists(m_fs, out) =>
                   \E i \in 1..(Cardinality(DOMAIN m_fs.files) + 1) :
                      /\ m_out_path = NumberedFile(out, i)
                      /\ ~exists(m_fs, m_out_path)
                      /\ \A j \in 1..(i - 1) : exists(m_fs, NumberedFile(out, j))
            /\ out = Path(".", "out", 0, ".mid") /\ exists(m_fs, out)
                  /\ ~exists(m_fs, Path(".", "out", 1, ".mid"))
               => m_out_path = Path(".", "out", 1, ".mid")
            /\ out = Path(".", "out", 0, ".mid") /\ exists(m_fs, out)
                  /\ exists(m_fs, Path(".", "out", 1, ".mid"))
                  /\ ~exists(m_fs, Path(".", "out", 2, ".mid"))
               => m_out_path = Path(".", "out", 2, ".mid")

\* C14 witness: the path requested has no extension; it and <stem>_1.mid
\* exist, and <stem>_2.mid was returned.
C14_Witness ==
    /\ m_pc = "encode"
    /\ m_args.out_file.suffix = ""
    /\ exists(m_fs, m_args.out_file)
    /\ exists(m_fs, Path(m_args.out_file.parent, "out", 1, ".mid"))
    /\ m_out_path = Path(m_args.out_file.parent, "out", 2, ".mid")

\* The paths the runs so far reported as saved, the current run included.
SavedPaths ==
    IF Saved THEN Append(m_runs.saved, m_out_path) ELSE m_runs.saved

\* The number of runs that are over.
FinishedRuns ==
    Len(m_runs.starts) - (IF m_pc \in {"returned", "crashed"} THEN 0 ELSE 1)

\* No file beside the requested output shared its stem before the first run.
NoOutputBeforehand ==
    \A q \in DOMAIN m_runs.starts[1].files :
        ~(q.parent = m_args.out_file.parent /\ q.stem = m_args.out_file.stem)

\* C15: output is non-destructive across runs.  In a sequence of runs of
\* main, the path handed to the writer never names a file that existed when
\* the run started, and no step removes or changes a file that exists; the
\* saved paths are distinct, and when every run so far succeeded and no
\* output was there beforehand, the k runs left out.mid, out_1.mid, ...,
\* out_(k-1).mid, created in that order.
C15_NonDestructiveOutput ==
    /\ [](m_pc = "save" => ~exists(CurrentStart, m_out_path))
    /\ [][\A q \in DOMAIN m_fs.files :
             q \in DOMAIN m_fs'.files /\ m_fs'.files[q] = m_fs.files[q]]_vars
    /\ [](\A j, k \in 1..Len(SavedPaths) :
             j < k => SavedPaths[j] # SavedPaths[k]
                      /\ SavedPaths[j].num < SavedPaths[k].num)
    /\ [](NoOutputBeforehand /\ Len(SavedPaths) = FinishedRuns =>
             \A j \in 1..Len(SavedPaths) :
                /\ SavedPaths[j] = IF j = 1 THEN m_args.out_file
                                   ELSE NumberedFile(m_args.out_file, j - 1)
                /\ exists(m_fs, SavedPaths[j])
                /\ m_fs.files[SavedPaths[j]].kind = "midi")

\* C15 witness: three runs with out.mid requested succeeded, leaving
\* out.mid, out_1.mid and out_2.mid in that order.
C15_Witness ==
    /\ Saved
    /\ m_args.out_file = Path(".", "out", 0, ".mid")
    /\ m_runs.starts[1].files = FsOf({"."}, {<<FileA, MidiContent(MidX)>>,
                                              <<FileB, MidiContent(MidY)>>}).files
    /\ SavedPaths = << Path(".", "out", 0, ".mid"), Path(".", "out", 1, ".mid"),
                       Path(".", "out", 2, ".mid") >>

\* exists() returned False for the path when the current run started.
MissingAtStart(path) ==
    ~exists(CurrentStart, path) /\ ~stat_raises(CurrentStart, path)

\* C16: input-missing abort.  When file A, or file B while A exists, does
\* not exist as main is called, main prints "Input file missing" for the
\* first missing file (A before B) and returns; neither file is decoded, no
\* output path is resolved, no directory is created and no file is written.
C16_InputMissingAbort ==
    LET a == m_args.file_a
        b == m_args.file_b
    IN  m_pc # "idle" /\ (MissingAtStart(a) \/ (exists(CurrentStart, a) /\ MissingAtStart(b)))
        => /\ m_pc \in {"check_a", "check_b", "returned"}
           /\ MissingAtStart(a) => m_pc # "check_b"
           /\ m_mids = <<NoMid, NoMid>>
           /\ m_out_path = NoPath
           /\ m_fs = CurrentStart
           /\ m_printed = IF m_pc # "returned" THEN <<>>
                          ELSE << <<"Input file missing",
                                    IF MissingAtStart(a) THEN a ELSE b>> >>

\* C16 witness: both files are missing and main returned after reporting A.
C16_Witness ==
    /\ m_pc = "returned"
    /\ MissingAtStart(m_args.file_a)
    /\ MissingAtStart(m_args.file_b)
    /\ m_printed = << <<"Input file missing", m_args.file_a>> >>

Undecodable(path) ==
    exists(CurrentStart, path) /\ CurrentStart.files[path].kind # "midi"

\* C17: decode-failure abort.  When both files exist and decoding A or B
\* fails, main prints "Failed to load MIDI files" and nothing else (no
\* counts) and returns; no output path is resolved, no directory is created
\* and no file is written; and when decoding A fails, B is never decoded.
C17_DecodeFailureAbort ==
    LET a == m_args.file_a
        b == m_args.file_b
    IN  m_pc # "idle" /\ exists(CurrentStart, a) /\ exists(CurrentStart, b)
              /\ (Undecodable(a) \/ Undecodable(b))
        => /\ m_pc \in {"check_a", "check_b", "load", "returned"}
           /\ m_out_path = NoPath
           /\ m_fs = CurrentStart
           /\ m_printed = IF m_pc # "returned" THEN <<>>
                          ELSE << <<"Failed to load MIDI files",
                                    IF Undecodable(a) THEN a ELSE b>> >>
           /\ m_mids[2] = NoMid
           /\ Undecodable(a) => m_mids[1] = NoMid

\* C17 witness: A cannot be decoded, B can, and main returned after the
\* report without having decoded B.
C17_Witness ==
    /\ m_pc = "returned"
    /\ Undecodable(m_args.file_a)
    /\ exists(CurrentStart, m_args.file_b) /\ ~Undecodable(m_args.file_b)
    /\ m_printed = << <<"Failed to load MIDI files", m_args.file_a>> >>
    /\ m_mids = <<NoMid, NoMid>>

TerminalReports ==
    {"Input file missing", "Failed to load MIDI files",
     "Failed to save diff MIDI", "Saved diff MIDI"}

\* C18: no failure escapes main.  No run ends with an exception; a run that
\* returned printed exactly one terminal report (input missing, load failed,
\* save failed or saved), as its last line; and "Saved" is printed only when
\* the save call wrote the file.
C18_NoFailureEscapes ==
    /\ m_pc # "crashed"
    /\ m_pc = "returned" =>
          /\ m_printed # <<>>
          /\ \A i \in 1..Len(m_printed) :
                 m_printed[i][1] \in TerminalReports <=> i = Len(m_printed)
    /\ Saved => /\ exists(m_fs, m_out_path)
                /\ m_fs.files[m_out_path] = MidiContent(m_diff_mid)

(***************************************************************************)
(* Claims about NoteEvent                                                  *)
(***************************************************************************)

DefaultBounds(n) ==
    /\ n.PITCH_MIN = PITCH_MIN /\ n.PITCH_MAX = PITCH_MAX
    /\ n.VELOCITY_MIN = VELOCITY_MIN /\ n.VELOCITY_MAX = VELOCITY_MAX

\* C2: equality and hash depend only on (pitch, start, duration).  Two
\* NoteEvents built with the same pitch, start and duration (and the default
\* bounds) compare equal whatever their velocities, and a set built from
\* them has one member.
C2_EqualityIgnoresVelocity ==
    Len(ne_objs) = 2 /\ DefaultBounds(ne_objs[1]) /\ DefaultBounds(ne_objs[2])
        /\ identity_key(ne_objs[1]) = identity_key(ne_objs[2])
    => /\ NoteEvent__eq__(ne_objs[1], ne_objs[2])
       /\ ne_set # {} => Cardinality(ne_set) = 1

\* An integer in the sense of the claim: an instance of int.
IsInteger(a) == isinstance_int(a)
InRange(a, lo, hi) == IsInteger(a) /\ lo <= a.value /\ a.value <= hi
AtLeast(a, lo) == IsInteger(a) /\ lo <= a.value

\* C10: construction succeeds iff pitch and velocity are integers in
\* [0,127], start is an integer >= 0 and duration is an integer >= 1; every
\* other combination of field values is rejected with an error and builds
\* nothing.
C10_ConstructionIffInRange ==
    ne_res.raised # "nocall" =>
        /\ ne_res.raised = "none" <=>
              /\ InRange(ne_args[1], 0, 127)
              /\ AtLeast(ne_args[2], 0)
              /\ AtLeast(ne_args[3], 1)
              /\ InRange(ne_args[4], 0, 127)
        /\ ne_res.raised # "none" => ne_res.raised \in {"TypeError", "ValueError"}

====
